---- MODULE Spec2Model ----
(***************************************************************************)
(* UMCP collapse calculus: the transport/weld validator                    *)
(* (src/umcp/validation/__init__.py, src/collapse_validate.py) and the     *)
(* invariant pipeline (src/umcp/core/__init__.py).                         *)
(*                                                                         *)
(* Python floats are modelled as fixed-point integers: the integer v       *)
(* stands for the real number v / One.  Products and quotients round to    *)
(* the nearest representable value, symmetrically in the sign, as IEEE     *)
(* arithmetic does, so results are inexact in the same places.             *)
(***************************************************************************)
EXTENDS Integers, Sequences, FiniteSets, TLC

(***************************************************************************)
(* Fixed-point arithmetic                                                  *)
(***************************************************************************)

\* the float 1.0
One == 200

\* internal precision of the log and exp series
Prec == 10000

\* ln 2 at precision Prec
Ln2P == 6931

\* One * ln(1e-300): the value of log at the clamp floor 1e-300
LnFloor == -138155

\* 1e-15 lies below the resolution 1/One: |d| < 1e-15 is d = 0 here
MachineScale == 1

Abs(x) == IF x < 0 THEN -x ELSE x

Min(x, y) == IF x <= y THEN x ELSE y

Max(x, y) == IF x >= y THEN x ELSE y

\* a / b rounded to the nearest integer, halves away from zero
RDiv(a, b) ==
  LET q == (2 * Abs(a) + Abs(b)) \div (2 * Abs(b))
  IN  IF (a < 0) # (b < 0) THEN -q ELSE q

\* float product a * b
FMul(a, b) ==
  LET big   == Max(Abs(a), Abs(b))
      small == Min(Abs(a), Abs(b))
      m     == small * (big \div One) + RDiv(small * (big % One), One)
  IN  IF (a < 0) # (b < 0) THEN -m ELSE m

\* float quotient a / b, b # 0
FDiv(a, b) == RDiv(a * One, b)

\* a / b rounded to the nearest integer, for a >= 0 and b > 0
RDivPos(a, b) == (2 * a + b) \div (2 * b)

\* 2 * atanh(z) at precision Prec, z = (m - One) / (m + One), for m >= One
LnSeries(m) ==
  LET z   == RDivPos((m - One) * Prec, m + One)
      z2  == RDivPos(z * z, Prec)
      t3  == RDivPos(z * z2, Prec)
      t5  == RDivPos(t3 * z2, Prec)
      t7  == RDivPos(t5 * z2, Prec)
      t9  == RDivPos(t7 * z2, Prec)
      t11 == RDivPos(t9 * z2, Prec)
  IN  2 * z + RDivPos(2 * t3, 3) + RDivPos(2 * t5, 5) + RDivPos(2 * t7, 7)
            + RDivPos(2 * t9, 9) + RDivPos(2 * t11, 11)

RECURSIVE LnP(_)
\* Prec * ln(x / One) for x >= 1: doubles x up to [One, ...) then the series
LnP(x) == IF x >= One THEN LnSeries(x) ELSE LnP(2 * x) - Ln2P

\* math.log(x) for x > 0
Ln(x) == RDiv(LnP(x) * One, Prec)

\* math.log(max(x, 1e-300)): every positive grid value exceeds the floor
log_clamped(x) == IF x <= 0 THEN LnFloor ELSE Ln(x)

(***************************************************************************)
(* Face potential module (src/umcp/core/__init__.py)                       *)
(***************************************************************************)

\* seeded fault: the exact face leaves out ln(1 - omega + eps)
phi_exact_two_logs(omega, eps, p, face) ==
  IF face = "exact"
    THEN 2 * log_clamped(One - omega)
    ELSE FMul(p, log_clamped(One - omega))

\* phi(omega, eps, p, face)
phi(omega, eps, p, face) ==
  IF face = "exact"
    THEN 2 * log_clamped(One - omega) + log_clamped(One - omega + eps)
    ELSE FMul(p, log_clamped(One - omega))

\* gamma_pointwise divides by 1 - omega (and 1 - omega + eps on the exact
\* face) without a clamp: a zero denominator raises ZeroDivisionError
gamma_pointwise_raises(omega, eps, face) ==
  IF face = "exact"
    THEN One - omega = 0 \/ One - omega + eps = 0
    ELSE One - omega = 0

\* gamma_pointwise(omega, eps, p, face), where it does not raise
gamma_pointwise(omega, eps, p, face) ==
  IF face = "exact"
    THEN FDiv(2 * One, One - omega) + FDiv(One, One - omega + eps)
    ELSE FDiv(p, One - omega)

gamma_secant_raises(om_minus, om_plus, eps, face) ==
  /\ Abs(om_plus - om_minus) < MachineScale
  /\ gamma_pointwise_raises(om_minus, eps, face)

\* seeded fault: the quotient is taken over |d_om|
gamma_secant_unsigned(om_minus, om_plus, eps, p, face) ==
  IF Abs(om_plus - om_minus) < MachineScale
    THEN gamma_pointwise(om_minus, eps, p, face)
    ELSE FDiv(phi(om_minus, eps, p, face) - phi(om_plus, eps, p, face),
              Abs(om_plus - om_minus))

\* gamma_secant(om_minus, om_plus, eps, p, face), where it does not raise
gamma_secant(om_minus, om_plus, eps, p, face) ==
  LET d_om == om_plus - om_minus
  IN  IF Abs(d_om) < MachineScale
        THEN gamma_pointwise(om_minus, eps, p, face)
        ELSE FDiv(phi(om_minus, eps, p, face) - phi(om_plus, eps, p, face), d_om)

(***************************************************************************)
(* Validator (src/umcp/validation/__init__.py)                             *)
(***************************************************************************)

\* seeded fault: the drift is ignored, only the guard selects the face
choose_face_guard_only(omega, guard_on, eps, pivot) ==
  IF guard_on THEN "exact" ELSE "normal"

\* seeded fault: the pivot itself stays on the normal face (> for >=)
choose_face_strict(omega, guard_on, eps, pivot) ==
  IF guard_on \/ omega > pivot THEN "exact" ELSE "normal"

\* choose_face(omega, guard_on, eps, pivot)
choose_face(omega, guard_on, eps, pivot) ==
  IF guard_on \/ omega >= pivot THEN "exact" ELSE "normal"

\* seeded fault: the rate is multiplied by alpha instead of 1/alpha
transport_update_U_times_alpha(U_n, om_n, om_np1, alpha, eps, p, face) ==
  U_n - FMul(FMul(alpha, gamma_secant(om_n, om_np1, eps, p, face)),
             om_np1 - om_n)

\* transport_update_U(U_n, om_n, om_np1, alpha, eps, p, face)
transport_update_U(U_n, om_n, om_np1, alpha, eps, p, face) ==
  LET Gam == gamma_secant(om_n, om_np1, eps, p, face)
  IN  U_n - FMul(FMul(FDiv(One, alpha), Gam), om_np1 - om_n)

\* _to_bool_flag(s)
to_bool_flag(s) == s \in {"1", "true", "True", "TRUE"}

\* the face of a row: its guard flag parsed, then choose_face
row_face(row, prm) ==
  choose_face(row.omega, to_bool_flag(row.guard_on), prm.eps, prm.pivot)

\* a row field that is absent or empty is the empty set, else {value}
FieldVal(f) == CHOOSE v \in f : TRUE

\* seeded fault: IC is not clipped to 1 from above
row_kappa_no_upper_clip(row) ==
  IF row.kappa # {}
    THEN FieldVal(row.kappa)
    ELSE log_clamped(FieldVal(row.IC))

\* kappa of a row: the kappa field, else ln(min(max(IC, 1e-300), 1.0))
row_kappa(row) ==
  IF row.kappa # {}
    THEN FieldVal(row.kappa)
    ELSE log_clamped(Min(FieldVal(row.IC), One))

\* U = C / (1.0 + tau_R)
row_U(row) == FDiv(row.C, One + row.tau_R)

\* the exception reading one row raises, "" if none
row_raises(row) ==
  IF row.kappa = {} /\ row.IC = {} THEN "KeyError"
  ELSE IF One + row.tau_R = 0 THEN "ZeroDivisionError"
  ELSE ""

\* seeded fault: no split, the departure face over the whole step
predict_U_no_split(U_n, om_n, om_np1, face_n, face_np1, prm) ==
  transport_update_U(U_n, om_n, om_np1, prm.alpha, prm.eps, prm.p, face_n)

\* seeded fault: the fallback runs on the arrival face
predict_U_arrival_face(U_n, om_n, om_np1, face_n, face_np1, prm) ==
  IF face_n # face_np1
       /\ Min(om_n, om_np1) <= prm.pivot /\ prm.pivot <= Max(om_n, om_np1)
    THEN transport_update_U(
           transport_update_U(U_n, om_n, prm.pivot,
                              prm.alpha, prm.eps, prm.p, face_n),
           prm.pivot, om_np1, prm.alpha, prm.eps, prm.p, face_np1)
    ELSE transport_update_U(U_n, om_n, om_np1,
                            prm.alpha, prm.eps, prm.p, face_np1)

\* the transport prediction of validate_step (the face handling)
predict_U(U_n, om_n, om_np1, face_n, face_np1, prm) ==
  IF face_n # face_np1
    THEN LET om_mid == prm.pivot
         IN  IF ~(Min(om_n, om_np1) <= om_mid /\ om_mid <= Max(om_n, om_np1))
               THEN transport_update_U(U_n, om_n, om_np1,
                                       prm.alpha, prm.eps, prm.p, face_n)
               ELSE LET U_mid == transport_update_U(U_n, om_n, om_mid,
                                       prm.alpha, prm.eps, prm.p, face_n)
                    IN  transport_update_U(U_mid, om_mid, om_np1,
                                       prm.alpha, prm.eps, prm.p, face_np1)
    ELSE transport_update_U(U_n, om_n, om_np1,
                            prm.alpha, prm.eps, prm.p, face_n)

\* whether that prediction raises ZeroDivisionError
predict_U_raises(om_n, om_np1, face_n, face_np1, prm) ==
  IF face_n # face_np1
    THEN LET om_mid == prm.pivot
         IN  IF ~(Min(om_n, om_np1) <= om_mid /\ om_mid <= Max(om_n, om_np1))
               THEN gamma_secant_raises(om_n, om_np1, prm.eps, face_n)
               ELSE \/ gamma_secant_raises(om_n, om_mid, prm.eps, face_n)
                    \/ gamma_secant_raises(om_mid, om_np1, prm.eps, face_np1)
    ELSE gamma_secant_raises(om_n, om_np1, prm.eps, face_n)

\* the exception validate_step raises on a row pair, "" if it returns
validate_step_raises(row_n, row_np1, prm) ==
  IF row_raises(row_n) # "" THEN row_raises(row_n)
  ELSE IF row_raises(row_np1) # "" THEN row_raises(row_np1)
  ELSE IF predict_U_raises(row_n.omega, row_np1.omega,
                           row_face(row_n, prm), row_face(row_np1, prm), prm)
         THEN "ZeroDivisionError"
  ELSE ""

\* seeded fault: the tolerance bound is exclusive
ok_flag_strict(r, tol) == IF Abs(r) < tol THEN 1 ELSE 0

\* float(abs(r) <= tol)
ok_flag(r, tol) == IF Abs(r) <= tol THEN 1 ELSE 0

\* seeded fault: the two tolerances are swapped
step_result_swapped_tol(om_n, om_np1, face_n, face_np1, U_n, U_np1, U_pred, k_n, k_np1, prm) ==
  [omega_n |-> om_n, omega_np1 |-> om_np1,
   face_n |-> face_n, face_np1 |-> face_np1,
   U_n |-> U_n, U_np1 |-> U_np1, U_pred |-> U_pred,
   rT |-> U_np1 - U_pred,
   rW |-> k_np1 - k_n,
   okT |-> IF Abs(U_np1 - U_pred) <= prm.tolW THEN 1 ELSE 0,
   okW |-> IF Abs(k_np1 - k_n) <= prm.tolT THEN 1 ELSE 0]

\* the residuals, the pass flags and the returned dictionary
step_result(om_n, om_np1, face_n, face_np1, U_n, U_np1, U_pred, k_n, k_np1, prm) ==
  [omega_n |-> om_n, omega_np1 |-> om_np1,
   face_n |-> face_n, face_np1 |-> face_np1,
   U_n |-> U_n, U_np1 |-> U_np1, U_pred |-> U_pred,
   rT |-> U_np1 - U_pred,
   rW |-> k_np1 - k_n,
   okT |-> ok_flag(U_np1 - U_pred, prm.tolT),
   okW |-> ok_flag(k_np1 - k_n, prm.tolW)]

\* validate_step(row_n, row_np1, alpha, eps, p, tolT, tolW, pivot), where it
\* returns
validate_step(row_n, row_np1, prm) ==
  step_result(row_n.omega, row_np1.omega,
              row_face(row_n, prm), row_face(row_np1, prm),
              row_U(row_n), row_U(row_np1),
              predict_U(row_U(row_n), row_n.omega, row_np1.omega,
                        row_face(row_n, prm), row_face(row_np1, prm), prm),
              row_kappa(row_n), row_kappa(row_np1), prm)

(***************************************************************************)
(* State: one call of validate_sequence(data, **kwargs)                    *)
(***************************************************************************)

VARIABLES
  rows,      \* data: the caller's ordered sequence of audit rows
  prm,       \* kwargs: alpha, eps, p, tolT, tolW, pivot
  pc,        \* "start", "loop", "done" (returned) or "raised"
  i,         \* the loop index of validate_sequence
  results,   \* the local list of validation records
  passes_T,  \* the local count of records with okT = 1
  passes_W,  \* the local count of records with okW = 1
  ret,       \* the value returned to the caller: <<>> is nothing yet
  err,       \* the exception that left the call, "" if none
  out_file   \* the lines of the output file a command-line run has written

vars == <<rows, prm, pc, i, results, passes_T, passes_W, ret, err, out_file>>

(***************************************************************************)
(* State: one call of compute_invariants(x_raw, a, b, eps, K, alpha)       *)
(***************************************************************************)

VARIABLES
  x_raw,     \* the caller's raw series
  cfg,       \* the arguments a, b, eps, K, alpha
  inv_pc,    \* "idle", "start", "tau", "records", "done" or "raised"
  inv,       \* the local lists y, xhat, omega, F, S, C, tau_R and res_sigma
  it,        \* the index of the loop being run
  records,   \* the local list of invariant records
  inv_ret,   \* the list returned to the caller: <<>> is nothing yet
  inv_err    \* the exception that left the call, "" if none

inv_vars == <<x_raw, cfg, inv_pc, inv, it, records, inv_ret, inv_err>>

\* no call of compute_invariants is in progress
InvIdle ==
  /\ x_raw = <<>>
  /\ cfg = <<>>
  /\ inv_pc = "idle"
  /\ inv = <<>>
  /\ it = 0
  /\ records = <<>>
  /\ inv_ret = <<>>
  /\ inv_err = ""

(***************************************************************************)
(* State: one call of a pure function of the library                       *)
(***************************************************************************)

VARIABLES
  call,      \* the function called and its arguments
  out        \* what the call gave: <<>> is nothing yet

fn_vars == <<call, out>>

\* no call of a pure function is in progress
FnIdle ==
  /\ call = <<>>
  /\ out = <<>>

(***************************************************************************)
(* State: one run of a script that reads a CSV with columns t, x_raw, a, b *)
(***************************************************************************)

VARIABLES
  prog,      \* the script run: "turbo", "harness", "" if none
  csv_rows,  \* rows: the rows read from the input CSV
  job_pc,    \* "idle", "start", "computing", "loop", "done" or "exit"
  job,       \* the locals of the script's main
  job_err,   \* how the run failed, "" if it did not
  job_out    \* the rows written to the output CSV

tool_vars == <<prog, csv_rows, job_pc, job, job_err, job_out>>

\* no script is running
ToolIdle ==
  /\ prog = ""
  /\ csv_rows = <<>>
  /\ job_pc = "idle"
  /\ job = <<>>
  /\ job_err = ""
  /\ job_out = <<>>

\* longest row sequence validated
MaxRows == 4

\* drift values: 0.5, 0.95, 0.99 (the default pivot), 0.995, 1.0 (the wall)
\* and 1.1 (past the wall)
OmegaVals == {100, 190, 198, 199, 200, 220}

\* guard_on column values
GuardVals == {"0", "1"}

\* (C, tau_R, kappa | IC) of a row: U is 0 and 0.1; kappa is -0.1, -0.085
\* and ln(0.5) derived from IC
Payloads ==
  { [C |-> 0,  tau_R |-> One, kappa |-> {-20}, IC |-> {}],
    [C |-> 40, tau_R |-> One, kappa |-> {-17}, IC |-> {100}],
    [C |-> 40, tau_R |-> One, kappa |-> {},    IC |-> {100}] }

MkRow(w, g, pl) ==
  [omega |-> w, guard_on |-> g, C |-> pl.C, tau_R |-> pl.tau_R,
   kappa |-> pl.kappa, IC |-> pl.IC]

\* rows of the two-row inputs
StepRows == {MkRow(w, g, pl) : w \in OmegaVals, g \in GuardVals, pl \in Payloads}

\* rows of the longer inputs
SeqRows ==
  {MkRow(w, "0", pl) : w \in {100, 200}, pl \in {q \in Payloads : q.kappa # {}}}

\* alpha 1.0 and 3.0; eps 0 and one grid unit; p 3.0; tolerances 0 (the
\* defaults 1e-9 and 1e-12 lie below the grid unit), tolT 0.1 and tolW 0.015;
\* pivot 0.99
ParamSets ==
  [alpha : {One, 3 * One}, eps : {0, 1}, p : {3 * One},
   tolT : {0, 20}, tolW : {0, 3}, pivot : {198}]

SeqsUpTo(S, n) == UNION {[1..k -> S] : k \in 0..n}

\* a second row whose U is exactly the transport of the first row's U to
\* drift w on the first row's face (tau_R = 0, so U = C)
TransportedRow(r, w, q) ==
  [omega |-> w, guard_on |-> r.guard_on,
   C |-> transport_update_U(row_U(r), r.omega, w, q.alpha, q.eps, q.p,
                            row_face(r, q)),
   tau_R |-> 0, kappa |-> r.kappa, IC |-> r.IC]

Inputs(q) ==
  SeqsUpTo(SeqRows, MaxRows)
    \cup [1..2 -> StepRows]
    \cup UNION {{<<r, TransportedRow(r, w, q)>> : w \in OmegaVals \ {r.omega}}
                  : r \in StepRows}

Init ==
  /\ prm \in ParamSets
  /\ rows \in Inputs(prm)
  /\ pc = "start"
  /\ i = 0
  /\ results = <<>>
  /\ passes_T = 0
  /\ passes_W = 0
  /\ ret = <<>>
  /\ err = ""
  /\ out_file = <<>>
  /\ InvIdle
  /\ FnIdle
  /\ ToolIdle

\* total = len(data) - 1
total == Len(rows) - 1

\* seeded fault: a single row is accepted
too_few_rows_off_by_one(data) == Len(data) < 1

\* len(data) < 2
too_few_rows(data) == Len(data) < 2

\* if len(data) < 2: raise ValueError
SeqSizeError ==
  /\ pc = "start"
  /\ too_few_rows(rows)
  /\ pc' = "raised"
  /\ err' = "ValueError"
  /\ UNCHANGED <<rows, prm, i, results, passes_T, passes_W, ret>>
  /\ UNCHANGED out_file
  /\ UNCHANGED inv_vars
  /\ UNCHANGED fn_vars
  /\ UNCHANGED tool_vars

\* results = []; passes_T = 0; passes_W = 0; total = len(data) - 1
SeqBegin ==
  /\ pc = "start"
  /\ ~too_few_rows(rows)
  /\ results' = <<>>
  /\ passes_T' = 0
  /\ passes_W' = 0
  /\ i' = 0
  /\ pc' = "loop"
  /\ UNCHANGED <<rows, prm, ret, err>>
  /\ UNCHANGED out_file
  /\ UNCHANGED inv_vars
  /\ UNCHANGED fn_vars
  /\ UNCHANGED tool_vars

\* seeded fault: every transition departs from the first row
step_record_from_first(data, k, q) ==
  [idx |-> k] @@ validate_step(data[1], data[k + 2], q)

\* the record one loop iteration appends: validate_step's, with idx set
step_record(data, k, q) ==
  [idx |-> k] @@ validate_step(data[k + 1], data[k + 2], q)

\* seeded fault: passes_T counts the weld flag
SeqAppend_miscount(res) ==
  /\ results' = Append(results, res)
  /\ passes_T' = passes_T + (IF res.okW = 1 THEN 1 ELSE 0)
  /\ passes_W' = passes_W + (IF res.okW = 1 THEN 1 ELSE 0)

\* results.append(res); passes_T += int(okT == 1.0); passes_W += ...
SeqAppend(res) ==
  /\ results' = Append(results, res)
  /\ passes_T' = passes_T + (IF res.okT = 1 THEN 1 ELSE 0)
  /\ passes_W' = passes_W + (IF res.okW = 1 THEN 1 ELSE 0)

\* seeded fault: idx is written into the caller's row as well
SeqStep_tags_input ==
  /\ pc = "loop"
  /\ i < total
  /\ validate_step_raises(rows[i + 1], rows[i + 2], prm) = ""
  /\ SeqAppend(step_record(rows, i, prm))
  /\ rows' = [rows EXCEPT ![i + 1] = [idx |-> i] @@ @]
  /\ i' = i + 1
  /\ UNCHANGED <<prm, pc, ret, err>>
  /\ UNCHANGED out_file
  /\ UNCHANGED inv_vars
  /\ UNCHANGED fn_vars
  /\ UNCHANGED tool_vars

\* one iteration of the loop body, validate_step returning
SeqStep ==
  /\ pc = "loop"
  /\ i < total
  /\ validate_step_raises(rows[i + 1], rows[i + 2], prm) = ""
  /\ SeqAppend(step_record(rows, i, prm))
  /\ i' = i + 1
  /\ UNCHANGED <<rows, prm, pc, ret, err>>
  /\ UNCHANGED out_file
  /\ UNCHANGED inv_vars
  /\ UNCHANGED fn_vars
  /\ UNCHANGED tool_vars

\* one iteration of the loop body, validate_step raising: the exception
\* leaves validate_sequence and nothing is returned
SeqStepRaise ==
  /\ pc = "loop"
  /\ i < total
  /\ validate_step_raises(rows[i + 1], rows[i + 2], prm) # ""
  /\ err' = validate_step_raises(rows[i + 1], rows[i + 2], prm)
  /\ pc' = "raised"
  /\ UNCHANGED <<rows, prm, i, results, passes_T, passes_W, ret>>
  /\ UNCHANGED out_file
  /\ UNCHANGED inv_vars
  /\ UNCHANGED fn_vars
  /\ UNCHANGED tool_vars

\* the summary dictionary
make_summary(n, pT, pW) ==
  [total_steps |-> n, transport_pass |-> pT, weld_pass |-> pW,
   transport_pass_rate |-> IF n > 0 THEN RDiv(pT * One, n) ELSE 0,
   weld_pass_rate |-> IF n > 0 THEN RDiv(pW * One, n) ELSE 0]

\* return results, summary
SeqReturn ==
  /\ pc = "loop"
  /\ ~(i < total)
  /\ ret' = <<results, make_summary(total, passes_T, passes_W)>>
  /\ pc' = "done"
  /\ UNCHANGED <<rows, prm, i, results, passes_T, passes_W, err>>
  /\ UNCHANGED out_file
  /\ UNCHANGED inv_vars
  /\ UNCHANGED fn_vars
  /\ UNCHANGED tool_vars

Next ==
  \/ SeqSizeError
  \/ SeqBegin
  \/ SeqStep
  \/ SeqStepRaise
  \/ SeqReturn

Spec == Init /\ [][Next]_<<vars, inv_vars, fn_vars, tool_vars>>

(***************************************************************************)
(* Command-line validator: main() of src/collapse_validate.py, whose       *)
(* validate_step is the library's, statement for statement                 *)
(***************************************************************************)

\* a row with neither kappa nor IC
MalformedRow ==
  [omega |-> 100, guard_on |-> "0", C |-> 0, tau_R |-> One,
   kappa |-> {}, IC |-> {}]

\* the rows of an audit CSV: well-formed ones and the malformed one
CliRows == SeqRows \cup {MalformedRow}

CliInit ==
  /\ prm \in ParamSets
  /\ rows \in SeqsUpTo(CliRows, MaxRows)
  /\ pc = "cli_start"
  /\ i = 0
  /\ results = <<>>
  /\ passes_T = 0
  /\ passes_W = 0
  /\ ret = <<>>
  /\ err = ""
  /\ out_file = <<>>
  /\ InvIdle
  /\ FnIdle
  /\ ToolIdle

\* if len(rows) < 2: sys.exit(...)
CliTooFewRows ==
  /\ pc = "cli_start"
  /\ Len(rows) < 2
  /\ pc' = "raised"
  /\ err' = "SystemExit"
  /\ UNCHANGED <<rows, prm, i, results, passes_T, passes_W, ret, out_file>>
  /\ UNCHANGED <<inv_vars, fn_vars, tool_vars>>

\* out_fp = open(args.out, "w"); writer.writeheader(); passes_T = 0; ...
CliOpen ==
  /\ pc = "cli_start"
  /\ ~(Len(rows) < 2)
  /\ out_file' = <<"header">>
  /\ passes_T' = 0
  /\ passes_W' = 0
  /\ i' = 0
  /\ pc' = "cli_loop"
  /\ UNCHANGED <<rows, prm, results, ret, err>>
  /\ UNCHANGED <<inv_vars, fn_vars, tool_vars>>

\* writer.writerow({"idx": i, **res}); passes_T += ...; passes_W += ...
CliWriteRow(res) ==
  /\ out_file' = Append(out_file, res)
  /\ passes_T' = passes_T + (IF res.okT = 1 THEN 1 ELSE 0)
  /\ passes_W' = passes_W + (IF res.okW = 1 THEN 1 ELSE 0)

\* one iteration of the loop of main, validate_step returning
CliStep ==
  /\ pc = "cli_loop"
  /\ i < total
  /\ validate_step_raises(rows[i + 1], rows[i + 2], prm) = ""
  /\ CliWriteRow(step_record(rows, i, prm))
  /\ i' = i + 1
  /\ UNCHANGED <<rows, prm, pc, results, ret, err>>
  /\ UNCHANGED <<inv_vars, fn_vars, tool_vars>>

\* one iteration of the loop of main, validate_step raising: nothing
\* catches the exception, and the file opened before the loop stays
CliStepRaise ==
  /\ pc = "cli_loop"
  /\ i < total
  /\ validate_step_raises(rows[i + 1], rows[i + 2], prm) # ""
  /\ err' = validate_step_raises(rows[i + 1], rows[i + 2], prm)
  /\ pc' = "raised"
  /\ UNCHANGED <<rows, prm, i, results, passes_T, passes_W, ret, out_file>>
  /\ UNCHANGED <<inv_vars, fn_vars, tool_vars>>

\* out_fp.close(); print the summary
CliClose ==
  /\ pc = "cli_loop"
  /\ ~(i < total)
  /\ pc' = "done"
  /\ UNCHANGED <<rows, prm, i, results, passes_T, passes_W, ret, err, out_file>>
  /\ UNCHANGED <<inv_vars, fn_vars, tool_vars>>

CliNext ==
  \/ CliTooFewRows
  \/ CliOpen
  \/ CliStep
  \/ CliStepRaise
  \/ CliClose

SpecCli == CliInit /\ [][CliNext]_<<vars, inv_vars, fn_vars, tool_vars>>

(***************************************************************************)
(* Invariant pipeline: src/umcp/core/__init__.py                           *)
(***************************************************************************)

\* DEFAULT_K, the curvature window
DEFAULT_K == 3

\* max_h, the search horizon of compute_tau_ret
MAX_H == 600

\* debounce_L, the run of hits compute_tau_ret asks for
DEBOUNCE_L == 2

\* res_sigma and eps_ret are carried at 1/(One * SigmaScale)
SigmaScale == 100

\* EMA_LAMBDA and TAUR_K are written in tenths
Tenths == 10

\* EMA_LAMBDA = 0.2
EMA_LAMBDA == 2

\* TAUR_K = 2.5
TAUR_K == 25

\* EPS_MIN = 5e-4, at 1/(One * SigmaScale)
EPS_MIN == 10

\* EPS_MAX = 0.07, at 1/(One * SigmaScale)
EPS_MAX == 1400

\* below 2^-MaxHalvings a float is nearer to 0 than to any other model value
MaxHalvings == 17

RECURSIVE Pow2(_)
Pow2(k) == IF k <= 0 THEN 1 ELSE 2 * Pow2(k - 1)

\* exp(r / Prec) * Prec for 0 <= r < Ln2P, by the power series
ExpSeries(r) ==
  LET t2 == RDivPos(r * r, 2 * Prec)
      t3 == RDivPos(t2 * r, 3 * Prec)
      t4 == RDivPos(t3 * r, 4 * Prec)
      t5 == RDivPos(t4 * r, 5 * Prec)
      t6 == RDivPos(t5 * r, 6 * Prec)
      t7 == RDivPos(t6 * r, 7 * Prec)
      t8 == RDivPos(t7 * r, 8 * Prec)
  IN  Prec + r + t2 + t3 + t4 + t5 + t6 + t7 + t8

\* exp(k * ln 2 + r / Prec), rounded to the model's floats
ExpAt(k, r) ==
  IF k >= 0 THEN RDivPos(One * ExpSeries(r) * Pow2(k), Prec)
  ELSE IF -k > MaxHalvings THEN 0
  ELSE RDivPos(One * ExpSeries(r), Prec * Pow2(-k))

\* math.exp
Exp(x) ==
  ExpAt((x * (Prec \div One)) \div Ln2P, (x * (Prec \div One)) % Ln2P)

\* clip01(value)
clip01(value) == Max(0, Min(One, value))

\* xs[k] as Python indexes a list: a negative k counts from the end
PyIndex(xs, k) == IF k >= 0 THEN xs[k + 1] ELSE xs[Len(xs) + k + 1]

\* y = [(x - a) / b for x in x_raw]
normalize(xs, a, b) == [k \in 1..Len(xs) |-> FDiv(xs[k] - a, b)]

\* xhat = [clip01(yi) for yi in y]
clip_all(y) == [k \in 1..Len(y) |-> clip01(y[k])]

\* compute_omega(y_series, policy)
compute_omega(y_series, policy) ==
  [k \in 1..Len(y_series) |->
     IF k = 1 THEN 0
     ELSE IF policy = "pre_clip"
          THEN Abs(y_series[k] - y_series[k - 1])
          ELSE Abs(clip01(y_series[k]) - clip01(y_series[k - 1]))]

\* compute_fidelity(omega)
compute_fidelity(om) == [k \in 1..Len(om) |-> One - om[k]]

\* compute_entropy(omega, eps) raises ValueError: math.log of a value <= 0
compute_entropy_raises(om, eps) ==
  \E k \in 1..Len(om) : One - om[k] + eps <= 0

\* compute_entropy(omega, eps), where it does not raise
compute_entropy(om, eps) == [k \in 1..Len(om) |-> -Ln(One - om[k] + eps)]

\* sum of (xhat[i] - xhat[i-k])**2 for k in 1..n
RECURSIVE sum_sq_diffs(_, _, _)
sum_sq_diffs(xh, k, n) ==
  IF n = 0 THEN 0
  ELSE sum_sq_diffs(xh, k, n - 1)
       + FMul(xh[k + 1] - xh[k + 1 - n], xh[k + 1] - xh[k + 1 - n])

\* compute_curvature(xhat, K)
compute_curvature(xh, K) ==
  [k \in 1..Len(xh) |->
     IF k - 1 < K THEN 0 ELSE RDiv(sum_sq_diffs(xh, k - 1, K), K)]

\* seeded fault: no debounce, the first hit is returned
RECURSIVE tau_scan_no_debounce(_, _, _, _, _)
tau_scan_no_debounce(eps_ret, xs, t, dt, seen) ==
  IF dt > Min(t + 1, MAX_H) THEN MAX_H
  ELSE IF Abs(xs[t + 1] - PyIndex(xs, t - dt)) * SigmaScale < eps_ret
       THEN dt
       ELSE tau_scan_no_debounce(eps_ret, xs, t, dt + 1, 0)

\* the loop of compute_tau_ret from lag dt on, with seen hits in a row
RECURSIVE tau_scan(_, _, _, _, _)
tau_scan(eps_ret, xs, t, dt, seen) ==
  IF dt > Min(t + 1, MAX_H) THEN MAX_H
  ELSE IF Abs(xs[t + 1] - PyIndex(xs, t - dt)) * SigmaScale < eps_ret
       THEN IF seen + 1 >= DEBOUNCE_L THEN dt
            ELSE tau_scan(eps_ret, xs, t, dt + 1, seen + 1)
       ELSE tau_scan(eps_ret, xs, t, dt + 1, 0)

\* compute_tau_ret(eps_ret, xhat_series, t)
compute_tau_ret(eps_ret, xs, t) ==
  IF t = 0 THEN 1 ELSE tau_scan(eps_ret, xs, t, 1, 0)

\* res_sigma = EMA_LAMBDA * abs(rres) + (1 - EMA_LAMBDA) * res_sigma
ema_update(rs, rres) ==
  RDiv(EMA_LAMBDA * Abs(rres) * SigmaScale + (Tenths - EMA_LAMBDA) * rs, Tenths)

\* eps_ret = max(EPS_MIN, min(TAUR_K * res_sigma, EPS_MAX))
adaptive_eps_ret(rs) == Max(EPS_MIN, Min(RDiv(TAUR_K * rs, Tenths), EPS_MAX))

\* compute_integrity_coefficient(F, S, omega, C, tau_R, alpha)
compute_integrity_coefficient(F, S, omega, C, tau_R, alpha) ==
  FMul(FMul(FMul(F, Exp(-S)), One - omega),
       Exp(FDiv(FMul(-alpha, C), One + One * tau_R)))

\* compute_kappa(IC)
compute_kappa(IC) == log_clamped(IC)

\* compute_U(C, tau_R)
compute_U(C, tau_R) == FDiv(C, One + One * tau_R)

\* v < m / 1000
below_milli(v, m) == v * 1000 < m * One

\* classify_regime(omega, F, S, C, IC)
classify_regime(omega, F, S, C, IC) ==
  IF /\ below_milli(omega, 38)
     /\ ~below_milli(F, 900) /\ F * 1000 # 900 * One
     /\ below_milli(S, 150)
     /\ below_milli(C, 140)
  THEN "Stable"
  ELSE IF ~below_milli(omega, 300)
       THEN IF below_milli(IC, 300) THEN "Critical" ELSE "Collapse"
       ELSE IF ~below_milli(omega, 38) THEN "Watch" ELSE "Stable"

\* longest raw series
MaxLen == 4

\* raw samples: with a = 0, b = 1 they normalize to 0, 0.5, 1 and 1.5
RawVals == {0, 100, 200, 300}

\* the arguments of a call: b <= 0 and b > 0, eps = 0 and eps > 0
InvConfigs ==
  [a : {0, 100}, b : {-One, 0, One, 2 * One}, eps : {0, 1},
   K : {2, DEFAULT_K}, alpha : {One}]

\* no call of validate_sequence is in progress
SeqIdle ==
  /\ rows = <<>>
  /\ prm = <<>>
  /\ pc = "idle"
  /\ i = 0
  /\ results = <<>>
  /\ passes_T = 0
  /\ passes_W = 0
  /\ ret = <<>>
  /\ err = ""
  /\ out_file = <<>>

\* calls that pass a drift policy by name: policy = "pre_clip" and
\* policy = "post_clip"; the other calls leave the option out
PolicyConfigs ==
  [a : {0}, b : {One}, eps : {1}, K : {2}, alpha : {One},
   policy : {"pre_clip", "post_clip"}]

\* the call names an argument the signature of compute_invariants lacks
unexpected_keyword(c) == "policy" \in DOMAIN c

InvInit ==
  /\ cfg \in InvConfigs \cup PolicyConfigs
  /\ x_raw \in SeqsUpTo(RawVals, MaxLen)
  /\ inv_pc = "start"
  /\ inv = <<>>
  /\ it = 0
  /\ records = <<>>
  /\ inv_ret = <<>>
  /\ inv_err = ""
  /\ SeqIdle
  /\ FnIdle
  /\ ToolIdle

\* seeded fault: only b = 0 is rejected
scale_rejected_zero_only(b) == b = 0

\* if b <= 0
scale_rejected(b) == b <= 0

\* the signature is (x_raw, a, b, eps, K, alpha): any other keyword raises
\* TypeError before the body runs
InvTypeError ==
  /\ inv_pc = "start"
  /\ unexpected_keyword(cfg)
  /\ inv_pc' = "raised"
  /\ inv_err' = "TypeError"
  /\ UNCHANGED <<x_raw, cfg, inv, it, records, inv_ret>>
  /\ UNCHANGED vars
  /\ UNCHANGED fn_vars
  /\ UNCHANGED tool_vars

\* if b <= 0: raise ValueError
InvConfigError ==
  /\ inv_pc = "start"
  /\ ~unexpected_keyword(cfg)
  /\ scale_rejected(cfg.b)
  /\ inv_pc' = "raised"
  /\ inv_err' = "ValueError"
  /\ UNCHANGED <<x_raw, cfg, inv, it, records, inv_ret>>
  /\ UNCHANGED vars
  /\ UNCHANGED fn_vars
  /\ UNCHANGED tool_vars

\* the drift of the normalized series, as compute_invariants asks for it
drift_of(xs, c) == compute_omega(normalize(xs, c.a, c.b), "pre_clip")

\* the local lists once y, xhat, omega, F, S and C are computed
core_lists(y, xh, om, c) ==
  [y |-> y, xhat |-> xh, omega |-> om, F |-> compute_fidelity(om),
   S |-> compute_entropy(om, c.eps), C |-> compute_curvature(xh, c.K),
   tau_R |-> <<>>, res_sigma |-> 0]

\* compute_entropy raises on a drift of 1 + eps or more: math domain error
InvEntropyRaise ==
  /\ inv_pc = "start"
  /\ ~unexpected_keyword(cfg)
  /\ ~scale_rejected(cfg.b)
  /\ compute_entropy_raises(drift_of(x_raw, cfg), cfg.eps)
  /\ inv_pc' = "raised"
  /\ inv_err' = "ValueError"
  /\ UNCHANGED <<x_raw, cfg, inv, it, records, inv_ret>>
  /\ UNCHANGED vars
  /\ UNCHANGED fn_vars
  /\ UNCHANGED tool_vars

\* normalize, clip, and compute omega, F, S, C
InvCore ==
  /\ inv_pc = "start"
  /\ ~unexpected_keyword(cfg)
  /\ ~scale_rejected(cfg.b)
  /\ ~compute_entropy_raises(drift_of(x_raw, cfg), cfg.eps)
  /\ inv' = core_lists(normalize(x_raw, cfg.a, cfg.b),
                       clip_all(normalize(x_raw, cfg.a, cfg.b)),
                       drift_of(x_raw, cfg), cfg)
  /\ it' = 0
  /\ inv_pc' = "tau"
  /\ UNCHANGED <<x_raw, cfg, records, inv_ret, inv_err>>
  /\ UNCHANGED vars
  /\ UNCHANGED fn_vars
  /\ UNCHANGED tool_vars

\* tau_R.append(compute_tau_ret(eps_ret, xhat, i)) with res_sigma updated
tau_append(v, k, rs) ==
  [v EXCEPT !.tau_R = Append(@, compute_tau_ret(adaptive_eps_ret(rs), v.xhat, k)),
            !.res_sigma = rs]

\* one iteration of the tau_R loop
tau_iteration(v, k) ==
  IF k = 0 THEN [v EXCEPT !.tau_R = Append(@, 1), !.res_sigma = 0]
  ELSE tau_append(v, k, ema_update(v.res_sigma, v.xhat[k + 1] - v.xhat[k]))

InvTauStep ==
  /\ inv_pc = "tau"
  /\ it < Len(inv.xhat)
  /\ inv' = tau_iteration(inv, it)
  /\ it' = it + 1
  /\ UNCHANGED <<x_raw, cfg, inv_pc, records, inv_ret, inv_err>>
  /\ UNCHANGED vars
  /\ UNCHANGED fn_vars
  /\ UNCHANGED tool_vars

\* the tau_R loop ends; results = []
InvTauDone ==
  /\ inv_pc = "tau"
  /\ ~(it < Len(inv.xhat))
  /\ records' = <<>>
  /\ it' = 0
  /\ inv_pc' = "records"
  /\ UNCHANGED <<x_raw, cfg, inv, inv_ret, inv_err>>
  /\ UNCHANGED vars
  /\ UNCHANGED fn_vars
  /\ UNCHANGED tool_vars

\* the dictionary appended for index k, IC being computed first
make_record(xs, v, k, IC) ==
  [t |-> k, x_raw |-> xs[k + 1], y |-> v.y[k + 1], xhat |-> v.xhat[k + 1],
   omega |-> v.omega[k + 1], F |-> v.F[k + 1], S |-> v.S[k + 1],
   C |-> v.C[k + 1], tau_R |-> v.tau_R[k + 1], IC |-> IC,
   kappa |-> compute_kappa(IC), U |-> compute_U(v.C[k + 1], v.tau_R[k + 1]),
   regime |-> classify_regime(v.omega[k + 1], v.F[k + 1], v.S[k + 1],
                              v.C[k + 1], IC)]

\* the record of index k
record_at(xs, v, k, alpha) ==
  make_record(xs, v, k,
              compute_integrity_coefficient(v.F[k + 1], v.S[k + 1],
                                            v.omega[k + 1], v.C[k + 1],
                                            v.tau_R[k + 1], alpha))

\* one iteration of the loop that builds the records
InvRecordStep ==
  /\ inv_pc = "records"
  /\ it < Len(x_raw)
  /\ records' = Append(records, record_at(x_raw, inv, it, cfg.alpha))
  /\ it' = it + 1
  /\ UNCHANGED <<x_raw, cfg, inv_pc, inv, inv_ret, inv_err>>
  /\ UNCHANGED vars
  /\ UNCHANGED fn_vars
  /\ UNCHANGED tool_vars

\* return results
InvReturn ==
  /\ inv_pc = "records"
  /\ ~(it < Len(x_raw))
  /\ inv_ret' = records
  /\ inv_pc' = "done"
  /\ UNCHANGED <<x_raw, cfg, inv, it, records, inv_err>>
  /\ UNCHANGED vars
  /\ UNCHANGED fn_vars
  /\ UNCHANGED tool_vars

InvNext ==
  \/ InvTypeError
  \/ InvConfigError
  \/ InvEntropyRaise
  \/ InvCore
  \/ InvTauStep
  \/ InvTauDone
  \/ InvRecordStep
  \/ InvReturn

SpecPipe == InvInit /\ [][InvNext]_<<vars, inv_vars, fn_vars, tool_vars>>

(***************************************************************************)
(* Pure functions of the library, each applied to arguments of its own     *)
(***************************************************************************)

\* longest list of steps labelled in one call
MaxSteps == 2

\* (F, S, C) on either side of the Stable gate: 0.9, 0.15 and 0.14 exactly
\* fail it
GateVals ==
  {<<181, 29, 27>>, <<180, 29, 27>>, <<181, 30, 27>>, <<181, 29, 28>>}

\* steps on either side of every threshold: omega 0.035, 0.04, 0.295, 0.30
\* and IC 0.295, 0.30
RegimeSteps ==
  {[omega |-> w, F |-> g[1], S |-> g[2], C |-> g[3], IC |-> ic] :
     w \in {7, 8, 59, 60}, g \in GateVals, ic \in {59, 60}}

RegimeCalls == [fn : {"classify_regime"}, steps : SeqsUpTo(RegimeSteps, MaxSteps)]

\* seeded fault: a step after a Collapse step keeps the Collapse label
label_steps_hysteresis(steps) ==
  [k \in 1..Len(steps) |->
     IF k > 1 /\ steps[k - 1].omega * 1000 >= 300 * One THEN "Collapse"
     ELSE classify_regime(steps[k].omega, steps[k].F, steps[k].S,
                          steps[k].C, steps[k].IC)]

\* regime = classify_regime(omega[i], F[i], S[i], C[i], IC) for every i
label_steps(steps) ==
  [k \in 1..Len(steps) |->
     classify_regime(steps[k].omega, steps[k].F, steps[k].S,
                     steps[k].C, steps[k].IC)]

\* rows for the kappa rule: kappa absent, present, present and positive;
\* IC absent, below 0, 0, inside (0, 1], 1 and above 1
KappaRows ==
  [omega : {100}, guard_on : {"0"}, C : {0}, tau_R : {One},
   kappa : {{}, {-20}, {5}}, IC : {{}, {-50}, {0}, {1}, {100}, {One}, {250}}]

KappaCalls == [fn : {"row_kappa"}, row : KappaRows]

\* the kappa of one row is read or derived
FnRowKappa ==
  /\ call.fn = "row_kappa"
  /\ out = <<>>
  /\ out' = IF row_raises(call.row) # ""
              THEN [err |-> row_raises(call.row)]
              ELSE [val |-> row_kappa(call.row)]
  /\ UNCHANGED <<call, vars, inv_vars, tool_vars>>

\* drifts for the secant rate: inside [0, 1), next to the wall, at the wall
\* (1.0), at 1 + eps and past the wall
GammaOmegas == {100, 198, 199, 200, 201, 220}

GammaCalls ==
  [fn : {"gamma_secant"}, om_minus : GammaOmegas, om_plus : GammaOmegas,
   eps : {0, 1}, p : {2 * One, 3 * One}, face : {"normal", "exact"}]

\* gamma_secant(om_minus, om_plus, eps, p, face) returns or raises
FnGammaSecant ==
  /\ call.fn = "gamma_secant"
  /\ out = <<>>
  /\ out' = IF gamma_secant_raises(call.om_minus, call.om_plus, call.eps, call.face)
              THEN [err |-> "ZeroDivisionError"]
              ELSE [val |-> gamma_secant(call.om_minus, call.om_plus, call.eps,
                                         call.p, call.face)]
  /\ UNCHANGED <<call, vars, inv_vars, tool_vars>>

\* longest kappa sequence given to validate_weld
MaxKappas == 3

\* kappa values 0.015 apart, the tolerance of the calls, and further apart
KappaVals == {-23, -20, -17}

\* the sequences of validate_weld, from no value at all, and the
\* tolerances 0 and 0.015
WeldCalls ==
  [fn : {"validate_weld"}, kappa_sequence : SeqsUpTo(KappaVals, MaxKappas),
   tolerance : {0, 3}]

\* seeded fault: a difference equal to the tolerance fails
validate_weld_strict(kappa_sequence, tolerance) ==
  IF Len(kappa_sequence) < 2 THEN <<>>
  ELSE [k \in 1..(Len(kappa_sequence) - 1) |->
          Abs(kappa_sequence[k + 1] - kappa_sequence[k]) < tolerance]

\* validate_weld(kappa_sequence, tolerance)
validate_weld(kappa_sequence, tolerance) ==
  IF Len(kappa_sequence) < 2 THEN <<>>
  ELSE [k \in 1..(Len(kappa_sequence) - 1) |->
          Abs(kappa_sequence[k + 1] - kappa_sequence[k]) <= tolerance]

\* validate_weld is applied to a kappa sequence
FnValidateWeld ==
  /\ call.fn = "validate_weld"
  /\ out = <<>>
  /\ out' = [val |-> validate_weld(call.kappa_sequence, call.tolerance)]
  /\ UNCHANGED <<call, vars, inv_vars, tool_vars>>

\* drifts of the transport calls: 0.5, 0.95, the pivot 0.99, 0.995, the
\* wall 1.0 and 1.1
TransportOmegas == {100, 190, 198, 199, 200, 220}

\* calls of transport_update_U over steps om_n -> om_np1 of non-zero width,
\* with a third drift om_mid apart from both
TransportCalls ==
  {c \in [fn : {"transport_update_U"}, U_n : {0, 20}, om_n : TransportOmegas,
          om_mid : TransportOmegas, om_np1 : TransportOmegas,
          alpha : {One, 3 * One}, eps : {0, 1}, p : {3 * One},
          face : {"normal", "exact"}] :
     c.om_n # c.om_np1 /\ c.om_mid # c.om_n /\ c.om_mid # c.om_np1}

\* transport_update_U is applied to the step om_n -> om_np1
FnTransport ==
  /\ call.fn = "transport_update_U"
  /\ out = <<>>
  /\ out' = [val |-> transport_update_U(call.U_n, call.om_n, call.om_np1,
                                        call.alpha, call.eps, call.p, call.face)]
  /\ UNCHANGED <<call, vars, inv_vars, tool_vars>>

FnCalls ==
  RegimeCalls
  \cup KappaCalls
  \cup GammaCalls
  \cup WeldCalls
  \cup TransportCalls

FnInit ==
  /\ call \in FnCalls
  /\ out = <<>>
  /\ SeqIdle
  /\ InvIdle
  /\ ToolIdle

\* the steps of a series are labelled
FnClassify ==
  /\ call.fn = "classify_regime"
  /\ out = <<>>
  /\ out' = [val |-> label_steps(call.steps)]
  /\ UNCHANGED <<call, vars, inv_vars, tool_vars>>

FnNext ==
  \/ FnClassify
  \/ FnRowKappa
  \/ FnGammaSecant
  \/ FnValidateWeld
  \/ FnTransport

SpecFn == FnInit /\ [][FnNext]_<<vars, inv_vars, fn_vars, tool_vars>>

(***************************************************************************)
(* Scripts over a CSV with per-row (a, b): src/umcp/scripts/turbo.py and   *)
(* src/turbo_compat_harness.py                                             *)
(***************************************************************************)

\* DEFAULT_EPS = 1e-8 (EPS in the harness): the smallest positive float of
\* the model
DEFAULT_EPS == 1

\* DEFAULT_ALPHA = 1.0 (ALPHA in the harness)
DEFAULT_ALPHA == One

\* L * sigma_z = 3 * sigma * sqrt(lam / (2 - lam)) with lam = 0.2 and the
\* default sigma = 1.0
EwmaLimit == One

\* k = 0.5 * sigma, the CUSUM slack
CusumK == One \div 2

\* h = 5.0 * sigma, the CUSUM limit
CusumH == 5 * One

\* ewma[k] (from 1): z = y_0, then z = lam * y_i + (1 - lam) * z
RECURSIVE ewma_at(_, _)
ewma_at(y, k) ==
  IF k = 1 THEN y[1]
  ELSE RDiv(EMA_LAMBDA * y[k] + (Tenths - EMA_LAMBDA) * ewma_at(y, k - 1), Tenths)

\* cusum_pos[k] (sign = 1) and cusum_neg[k] (sign = -1)
RECURSIVE cusum_at(_, _, _)
cusum_at(y, k, sign) ==
  Max(0, (sign * y[k] - CusumK) + (IF k = 1 THEN 0 ELSE cusum_at(y, k - 1, sign)))

\* the three flags of sample k: Shewhart 3 sigma, EWMA and CUSUM
spc_flags(y, k) ==
  [shewhart_flag |-> IF Abs(y[k]) > 3 * One THEN 1 ELSE 0,
   ewma_flag |-> IF Abs(ewma_at(y, k)) > EwmaLimit THEN 1 ELSE 0,
   cusum_flag |-> IF cusum_at(y, k, 1) > CusumH \/ cusum_at(y, k, -1) > CusumH
                    THEN 1 ELSE 0]

\* longest input with rows that differ in (a, b)
MaxCsv == 2

\* rows whose (a, b) vary from row to row, b <= 0 included
ToolRows == [x_raw : {0, 300}, a : {0, 100}, b : {-One, 0, One, 2 * One}]

\* rows of a series with one constant (a, b) = (0, 1)
FrozenRow(x) == [x_raw |-> x, a |-> 0, b |-> One]

FrozenInputs ==
  {[k \in 1..Len(xs) |-> FrozenRow(xs[k])] : xs \in SeqsUpTo(RawVals, MaxLen)}

\* x_raw = [float(row["x_raw"]) for row in rows], and a_vals, b_vals alike
column(rs, f) == [k \in 1..Len(rs) |-> rs[k][f]]

ToolInit ==
  /\ \/ prog = "turbo" /\ csv_rows \in SeqsUpTo(ToolRows, MaxCsv)
     \/ prog = "harness" /\ csv_rows \in SeqsUpTo(ToolRows, MaxCsv) \cup FrozenInputs
  /\ job_pc = "start"
  /\ job = <<>>
  /\ job_err = ""
  /\ job_out = <<>>
  /\ SeqIdle
  /\ InvIdle
  /\ FnIdle

\* turbo.py: if not rows: sys.exit(1)
TurboEmpty ==
  /\ prog = "turbo"
  /\ job_pc = "start"
  /\ csv_rows = <<>>
  /\ job_pc' = "exit"
  /\ job_err' = "SystemExit"
  /\ UNCHANGED <<prog, csv_rows, job, job_out>>
  /\ UNCHANGED <<vars, inv_vars, fn_vars>>

\* turbo.py: a, b = a_vals[0], b_vals[0]; if b <= 0: sys.exit(1)
TurboReject ==
  /\ prog = "turbo"
  /\ job_pc = "start"
  /\ csv_rows # <<>>
  /\ scale_rejected(csv_rows[1].b)
  /\ job_pc' = "exit"
  /\ job_err' = "SystemExit"
  /\ UNCHANGED <<prog, csv_rows, job, job_out>>
  /\ UNCHANGED <<vars, inv_vars, fn_vars>>

\* turbo.py: results = umcp.compute_invariants(x_raw, a, b) is entered
TurboCompute ==
  /\ prog = "turbo"
  /\ job_pc = "start"
  /\ csv_rows # <<>>
  /\ ~scale_rejected(csv_rows[1].b)
  /\ job' = [a_vals |-> column(csv_rows, "a"), b_vals |-> column(csv_rows, "b"),
             a |-> csv_rows[1].a, b |-> csv_rows[1].b]
  /\ x_raw' = column(csv_rows, "x_raw")
  /\ cfg' = [a |-> csv_rows[1].a, b |-> csv_rows[1].b, eps |-> DEFAULT_EPS,
             K |-> DEFAULT_K, alpha |-> DEFAULT_ALPHA]
  /\ inv_pc' = "start"
  /\ job_pc' = "computing"
  /\ UNCHANGED <<prog, csv_rows, job_err, job_out>>
  /\ UNCHANGED <<inv, it, records, inv_ret, inv_err>>
  /\ UNCHANGED <<vars, fn_vars>>

\* turbo.py: except Exception around compute_invariants: sys.exit(1)
TurboFail ==
  /\ prog = "turbo"
  /\ job_pc = "computing"
  /\ inv_pc = "raised"
  /\ job_pc' = "exit"
  /\ job_err' = "SystemExit"
  /\ UNCHANGED <<prog, csv_rows, job, job_out>>
  /\ UNCHANGED <<vars, inv_vars, fn_vars>>

\* the output row of index k (from 1): the record, the row's own a and b,
\* and the SPC flags of y
turbo_row(res, v, k) ==
  [t |-> k - 1, x_raw |-> res[k].x_raw, a |-> v.a_vals[k], b |-> v.b_vals[k],
   y |-> res[k].y, xhat |-> res[k].xhat, omega |-> res[k].omega,
   F |-> res[k].F, S |-> res[k].S, C |-> res[k].C, tau_R |-> res[k].tau_R,
   IC |-> res[k].IC, kappa |-> res[k].kappa, regime |-> res[k].regime]
  @@ spc_flags(column(res, "y"), k)

\* turbo.py: the SPC overlays are computed and the output CSV is written
TurboWrite ==
  /\ prog = "turbo"
  /\ job_pc = "computing"
  /\ inv_pc = "done"
  /\ job_out' = [k \in 1..Len(inv_ret) |-> turbo_row(inv_ret, job, k)]
  /\ job_pc' = "done"
  /\ UNCHANGED <<prog, csv_rows, job, job_err>>
  /\ UNCHANGED <<vars, inv_vars, fn_vars>>

\* harness: the lists and the residual estimate before the first row
HarnessBegin ==
  /\ prog = "harness"
  /\ job_pc = "start"
  /\ job' = [y |-> <<>>, xhat |-> <<>>, omega |-> <<>>, F |-> <<>>, S |-> <<>>,
             C |-> <<>>, tauR |-> <<>>, IC |-> <<>>, kappa |-> <<>>,
             flags |-> <<>>, res_sigma |-> 0]
  /\ job_pc' = "loop"
  /\ UNCHANGED <<prog, csv_rows, job_err, job_out>>
  /\ UNCHANGED <<vars, inv_vars, fn_vars>>

\* harness: w = 0.0 if i == 0 else abs(y[i] - y[i-1])
harness_drift(v, y_i) ==
  IF Len(v.y) = 0 THEN 0 ELSE Abs(y_i - v.y[Len(v.y)])

\* harness: c from the window deque(maxlen=K+1): 0.0 until it is full, then
\* the mean of (xhat_win[-1] - xhat_win[-k])**2 for k in 1..K
harness_curvature(xh, k) ==
  IF k < DEFAULT_K THEN 0
  ELSE RDiv(sum_sq_diffs(xh, k, DEFAULT_K - 1), DEFAULT_K)

\* harness: res_sigma = 0.0 if i == 0 else the EMA of abs(xhat[i] - xhat[i-1])
harness_sigma(v, xh) ==
  IF Len(v.y) = 0 THEN 0
  ELSE ema_update(v.res_sigma, xh - v.xhat[Len(v.xhat)])

\* harness: compute_tau_ret(eps_ret, xhat, i) of the harness, which has no
\* shortcut for t = 0 and sees the samples appended so far
harness_tau_ret(eps_ret, series, t) == tau_scan(eps_ret, series, t, 1, 0)

\* the exception the loop body raises on row r, "" if none
harness_raises(v, r) ==
  IF r.b = 0 THEN "ZeroDivisionError"
  ELSE IF One - harness_drift(v, FDiv(r.x_raw - r.a, r.b)) + DEFAULT_EPS <= 0
         THEN "ValueError"
  ELSE ""

\* the lists after the appends of one loop body
harness_lists(v, y_i, xh, w, s, c, tr, ic) ==
  [y |-> Append(v.y, y_i), xhat |-> Append(v.xhat, xh),
   omega |-> Append(v.omega, w), F |-> Append(v.F, One - w),
   S |-> Append(v.S, s), C |-> Append(v.C, c), tauR |-> Append(v.tauR, tr),
   IC |-> Append(v.IC, ic), kappa |-> Append(v.kappa, compute_kappa(ic)),
   flags |-> Append(v.flags, spc_flags(Append(v.y, y_i), Len(v.y) + 1)),
   res_sigma |-> harness_sigma(v, xh)]

\* tau_R and IC of the row, once w, s and c are known
harness_integrity(v, y_i, xh, w, s, c, tr) ==
  harness_lists(v, y_i, xh, w, s, c, tr,
                compute_integrity_coefficient(One - w, s, w, c, tr, DEFAULT_ALPHA))

\* drift, entropy, curvature and return time of the row
harness_invariants(v, y_i, xh, w) ==
  harness_integrity(v, y_i, xh, w, -Ln(One - w + DEFAULT_EPS),
                    harness_curvature(Append(v.xhat, xh), Len(v.y)),
                    harness_tau_ret(adaptive_eps_ret(harness_sigma(v, xh)),
                                    Append(v.xhat, xh), Len(v.y)))

\* the loop body on row r: y_i = (xr - a) / b with the row's own a and b
harness_row(v, r) ==
  harness_invariants(v, FDiv(r.x_raw - r.a, r.b), clip01(FDiv(r.x_raw - r.a, r.b)),
                     harness_drift(v, FDiv(r.x_raw - r.a, r.b)))

\* harness: one iteration of the loop over the rows
HarnessRow ==
  /\ prog = "harness"
  /\ job_pc = "loop"
  /\ Len(job.y) < Len(csv_rows)
  /\ harness_raises(job, csv_rows[Len(job.y) + 1]) = ""
  /\ job' = harness_row(job, csv_rows[Len(job.y) + 1])
  /\ UNCHANGED <<prog, csv_rows, job_pc, job_err, job_out>>
  /\ UNCHANGED <<vars, inv_vars, fn_vars>>

\* harness: the loop body raises and the exception ends the script
HarnessRowRaise ==
  /\ prog = "harness"
  /\ job_pc = "loop"
  /\ Len(job.y) < Len(csv_rows)
  /\ harness_raises(job, csv_rows[Len(job.y) + 1]) # ""
  /\ job_err' = harness_raises(job, csv_rows[Len(job.y) + 1])
  /\ job_pc' = "exit"
  /\ UNCHANGED <<prog, csv_rows, job, job_out>>
  /\ UNCHANGED <<vars, inv_vars, fn_vars>>

\* the output row of index k (from 1)
harness_out_row(rs, v, k) ==
  [t |-> k - 1, x_raw |-> rs[k].x_raw, a |-> rs[k].a, b |-> rs[k].b,
   y |-> v.y[k], xhat |-> v.xhat[k], omega |-> v.omega[k], F |-> v.F[k],
   S |-> v.S[k], C |-> v.C[k], tau_R |-> v.tauR[k], IC |-> v.IC[k],
   kappa |-> v.kappa[k]]
  @@ v.flags[k]

\* harness: the audit CSV is written
HarnessEmit ==
  /\ prog = "harness"
  /\ job_pc = "loop"
  /\ ~(Len(job.y) < Len(csv_rows))
  /\ job_out' = [k \in 1..Len(csv_rows) |-> harness_out_row(csv_rows, job, k)]
  /\ job_pc' = "done"
  /\ UNCHANGED <<prog, csv_rows, job, job_err>>
  /\ UNCHANGED <<vars, inv_vars, fn_vars>>

ToolNext ==
  \/ TurboEmpty
  \/ TurboReject
  \/ TurboCompute
  \/ InvEntropyRaise
  \/ InvCore
  \/ InvTauStep
  \/ InvTauDone
  \/ InvRecordStep
  \/ InvReturn
  \/ TurboFail
  \/ TurboWrite
  \/ HarnessBegin
  \/ HarnessRow
  \/ HarnessRowRaise
  \/ HarnessEmit

SpecTool == ToolInit /\ [][ToolNext]_<<vars, inv_vars, fn_vars, tool_vars>>

(***************************************************************************)
(* Properties of the validator                                             *)
(***************************************************************************)

\* pivot lies in the closed interval spanned by the record's two drifts
PivotInside(r) ==
  /\ Min(r.omega_n, r.omega_np1) <= prm.pivot
  /\ prm.pivot <= Max(r.omega_n, r.omega_np1)

\* the single-face update of the record's U_n over the whole step
SingleFace(r, face) ==
  transport_update_U(r.U_n, r.omega_n, r.omega_np1,
                     prm.alpha, prm.eps, prm.p, face)

\* the two chained updates omega_n -> pivot on face_n, pivot -> omega_np1 on
\* face_np1
SplitAtPivot(r) ==
  transport_update_U(
    transport_update_U(r.U_n, r.omega_n, prm.pivot,
                       prm.alpha, prm.eps, prm.p, r.face_n),
    prm.pivot, r.omega_np1, prm.alpha, prm.eps, prm.p, r.face_np1)

\* C1: when the faces of a step differ and pivot lies in
\* [min(omega_n, omega_np1), max(omega_n, omega_np1)], U_pred is the
\* composition of the update omega_n -> pivot on face_n and the update
\* pivot -> omega_np1 on face_np1 starting from the intermediate U.
C1_SplitComposition ==
  \A k \in DOMAIN results :
    (results[k].face_n # results[k].face_np1 /\ PivotInside(results[k]))
      => results[k].U_pred = SplitAtPivot(results[k])

\* the scenario omega 0.95 -> 0.995 with pivot 0.99 and no guards: the faces
\* are normal -> exact and the split differs from both single-face updates
C1_Witness ==
  \E k \in DOMAIN results :
    /\ results[k].omega_n = 190 /\ results[k].omega_np1 = 199
    /\ prm.pivot = 198
    /\ rows[k].guard_on = "0" /\ rows[k + 1].guard_on = "0"
    /\ results[k].face_n = "normal" /\ results[k].face_np1 = "exact"
    /\ results[k].U_pred = SplitAtPivot(results[k])
    /\ results[k].U_pred # SingleFace(results[k], "normal")
    /\ results[k].U_pred # SingleFace(results[k], "exact")

\* C2: when the faces differ and pivot lies outside the interval, U_pred is
\* the single-face update over the whole step on face_n, the departure face.
C2_FallbackDepartureFace ==
  \A k \in DOMAIN results :
    (results[k].face_n # results[k].face_np1 /\ ~PivotInside(results[k]))
      => results[k].U_pred = SingleFace(results[k], results[k].face_n)

\* a fallback step on which the arrival face would predict another value
C2_Witness ==
  \E k \in DOMAIN results :
    /\ results[k].face_n # results[k].face_np1
    /\ ~PivotInside(results[k])
    /\ results[k].omega_n # results[k].omega_np1
    /\ results[k].U_pred = SingleFace(results[k], results[k].face_n)
    /\ results[k].U_pred # SingleFace(results[k], results[k].face_np1)

\* C3: when the faces agree, U_pred = U_n - (1/alpha) * gamma_secant(omega_n,
\* omega_np1) * (omega_np1 - omega_n) on that face; a second row whose U was
\* built by exactly that update gives rT = 0 and okT = 1.
C3_SameFaceUpdate ==
  \A k \in DOMAIN results :
    results[k].face_n = results[k].face_np1
      => /\ results[k].U_pred =
              results[k].U_n
                - FMul(FMul(FDiv(One, prm.alpha),
                            gamma_secant(results[k].omega_n, results[k].omega_np1,
                                         prm.eps, prm.p, results[k].face_n)),
                       results[k].omega_np1 - results[k].omega_n)
         /\ (rows[k + 1].tau_R = 0 /\ rows[k + 1].C = results[k].U_pred)
              => (results[k].rT = 0 /\ results[k].okT = 1)

\* a constructed pair with a genuine drift step, validated with tolT = 0
C3_Witness ==
  \E k \in DOMAIN results :
    /\ results[k].face_n = results[k].face_np1
    /\ results[k].omega_n # results[k].omega_np1
    /\ rows[k + 1].tau_R = 0 /\ rows[k + 1].C = results[k].U_pred
    /\ results[k].U_pred # results[k].U_n
    /\ prm.tolT = 0
    /\ results[k].rT = 0 /\ results[k].okT = 1

\* the face the policy assigns to one row, from that row alone
PolicyFace(row) ==
  IF row.guard_on \in {"1", "true", "True", "TRUE"} \/ row.omega >= prm.pivot
    THEN "exact" ELSE "normal"

\* C4: a row's face is exact iff its guard is on or its omega >= pivot, and
\* normal otherwise; it depends on that row alone, so a row has the same face
\* as the arrival row of one record and the departure row of the next.
C4_FacePolicy ==
  \A k \in DOMAIN results :
    /\ results[k].face_n = PolicyFace(rows[k])
    /\ results[k].face_np1 = PolicyFace(rows[k + 1])
    /\ (k + 1 \in DOMAIN results => results[k + 1].face_n = results[k].face_np1)

\* one record with a row exactly at the pivot without a guard (exact) next
\* to an unguarded row below the pivot (normal)
C4_Witness ==
  \E k \in DOMAIN results :
    /\ rows[k].guard_on = "0" /\ rows[k].omega = prm.pivot
    /\ results[k].face_n = "exact"
    /\ rows[k + 1].guard_on = "0" /\ rows[k + 1].omega < prm.pivot
    /\ results[k].face_np1 = "normal"

\* C5: in every record rT = U_np1 - U_pred with U_np1 = C_np1 / (1 + tau_R_np1)
\* recomputed from the row, rW = kappa_np1 - kappa_n, okT = 1 exactly when
\* |rT| <= tolT, okW = 1 exactly when |rW| <= tolW, and the flags are 0 or 1.
C5_ResidualsAndFlags ==
  \A k \in DOMAIN results :
    /\ results[k].U_np1 = RDiv(rows[k + 1].C * One, One + rows[k + 1].tau_R)
    /\ results[k].rT = results[k].U_np1 - results[k].U_pred
    /\ results[k].rW = row_kappa(rows[k + 1]) - row_kappa(rows[k])
    /\ results[k].okT \in {0, 1}
    /\ results[k].okW \in {0, 1}
    /\ (results[k].okT = 1) <=>
         (results[k].rT <= prm.tolT /\ -results[k].rT <= prm.tolT)
    /\ (results[k].okW = 1) <=>
         (results[k].rW <= prm.tolW /\ -results[k].rW <= prm.tolW)

\* a record whose transport residual sits exactly on a positive tolerance and
\* passes, while its weld residual exceeds its tolerance and fails
C5_Witness ==
  \E k \in DOMAIN results :
    /\ prm.tolT > 0 /\ prm.tolW > 0 /\ prm.tolT # prm.tolW
    /\ results[k].rT = prm.tolT /\ results[k].okT = 1
    /\ -results[k].rW > prm.tolW /\ results[k].okW = 0

\* every row carries a kappa field, and it is the same in all of them
ConstantKappa ==
  \A a, b \in DOMAIN rows : rows[a].kappa # {} /\ rows[a].kappa = rows[b].kappa

\* C6: if every row of a sequence carries exactly the same kappa, every record
\* has rW = 0 and okW = 1 for any tolW >= 0, tolW = 0 included, and the
\* summary's weld_pass equals its total_steps.
C6_WeldConservation ==
  ConstantKappa =>
    /\ \A k \in DOMAIN results : results[k].rW = 0 /\ results[k].okW = 1
    /\ passes_W = Len(results)
    /\ pc = "done" => ret[2].weld_pass = ret[2].total_steps

\* a returned run of two transitions on constant kappa with tolW = 0
C6_Witness ==
  /\ ConstantKappa
  /\ prm.tolW = 0
  /\ pc = "done"
  /\ Len(rows) = MaxRows
  /\ ret[2].weld_pass = MaxRows - 1 /\ ret[2].total_steps = MaxRows - 1

\* the fields of a validation record besides idx
RecordFields ==
  {"omega_n", "omega_np1", "face_n", "face_np1", "U_n", "U_np1", "U_pred",
   "rT", "rW", "okT", "okW"}

\* C7: on n >= 2 rows validate_sequence returns n-1 records, record i the
\* validation of (rows[i], rows[i+1]) with idx = i in increasing order, and a
\* summary with total_steps = n-1, transport_pass and weld_pass the numbers of
\* records with okT = 1 and okW = 1 (between 0 and total_steps), and each
\* pass rate its count divided by total_steps.
C7_SequenceSummary ==
  pc = "done" =>
    /\ Len(rows) >= 2
    /\ Len(ret[1]) = Len(rows) - 1
    /\ \A k \in DOMAIN ret[1] :
         /\ ret[1][k].idx = k - 1
         /\ ret[1][k].omega_n = rows[k].omega
         /\ ret[1][k].omega_np1 = rows[k + 1].omega
         /\ ret[1][k].U_n = row_U(rows[k])
         /\ ret[1][k].U_np1 = row_U(rows[k + 1])
         /\ ret[1][k].rW = row_kappa(rows[k + 1]) - row_kappa(rows[k])
    /\ ret[2].total_steps = Len(rows) - 1
    /\ ret[2].transport_pass = Cardinality({k \in DOMAIN ret[1] : ret[1][k].okT = 1})
    /\ ret[2].weld_pass = Cardinality({k \in DOMAIN ret[1] : ret[1][k].okW = 1})
    /\ 0 <= ret[2].transport_pass /\ ret[2].transport_pass <= ret[2].total_steps
    /\ 0 <= ret[2].weld_pass /\ ret[2].weld_pass <= ret[2].total_steps
    /\ 2 * Abs(ret[2].transport_pass_rate * ret[2].total_steps
                 - ret[2].transport_pass * One) <= ret[2].total_steps
    /\ 2 * Abs(ret[2].weld_pass_rate * ret[2].total_steps
                 - ret[2].weld_pass * One) <= ret[2].total_steps

\* a returned run over three rows with one transport pass and two weld passes
C7_Witness ==
  /\ pc = "done"
  /\ Len(rows) = 3
  /\ Len(ret[1]) = 2
  /\ ret[2].total_steps = 2
  /\ ret[2].transport_pass = 1
  /\ ret[2].weld_pass = 2
  /\ ret[2].transport_pass_rate = One \div 2
  /\ ret[2].weld_pass_rate = One

\* C8: on fewer than 2 rows validate_sequence fails with the size error
\* (ValueError) and returns neither records nor a summary.
C8_TooFewRows ==
  (Len(rows) < 2 /\ pc # "start") =>
    /\ pc = "raised"
    /\ err = "ValueError"
    /\ ret = <<>>
    /\ results = <<>>

\* the call on a single row has raised
C8_Witness ==
  /\ Len(rows) = 1
  /\ pc = "raised"
  /\ err = "ValueError"
  /\ ret = <<>>

\* C9: record i is a function of rows i and i+1 and the parameters only: it is
\* the validation of that pair taken alone, whatever was processed before it,
\* and equal pairs at different positions give records equal up to idx.
C9_TransitionIndependence ==
  /\ \A k \in DOMAIN results :
       results[k] = [idx |-> k - 1] @@ validate_step(rows[k], rows[k + 1], prm)
  /\ \A k, m \in DOMAIN results :
       (rows[k] = rows[m] /\ rows[k + 1] = rows[m + 1])
         => \A f \in RecordFields : results[k][f] = results[m][f]

\* the same pair validated at two positions, after a transition that failed
\* both checks
C9_Witness ==
  /\ Len(results) = 3
  /\ rows[1] # rows[2]
  /\ rows[2] = rows[3] /\ rows[3] = rows[4]
  /\ results[1].okT = 0 /\ results[1].okW = 0
  /\ results[2].idx = 1 /\ results[3].idx = 2
  /\ \A f \in RecordFields : results[2][f] = results[3][f]

(***************************************************************************)
(* Properties of the invariant pipeline                                    *)
(***************************************************************************)

\* the ranges of one invariant record
InRanges(r) ==
  /\ 0 <= r.omega
  /\ 0 <= r.xhat /\ r.xhat <= One
  /\ 0 < r.IC /\ r.IC <= One
  /\ r.kappa <= 0

\* C10: every record compute_invariants produces from a raw series with
\* b > 0 has 0 <= omega, 0 <= xhat <= 1, 0 < IC <= 1 and kappa <= 0, the
\* record at t = 0 and the records whose pre-clip drift reaches 1 included.
C10_RecordRanges ==
  cfg.b > 0 => \A k \in 1..Len(records) : InRanges(records[k])

\* a call with eps > 0 and b > 0 has returned the record of t = 0 and a
\* record whose pre-clip drift is exactly 1
C10_Witness ==
  /\ inv_pc = "done"
  /\ cfg.b > 0
  /\ cfg.eps > 0
  /\ Len(inv_ret) >= 2
  /\ inv_ret[1].t = 0
  /\ inv_ret[1].omega = 0
  /\ \E k \in 2..Len(inv_ret) : inv_ret[k].omega = One

\* C11: with b <= 0, b = 0 and b < 0 alike, compute_invariants raises its
\* configuration error (ValueError in the code) as its first step: no list
\* is normalized or computed, no record is built and nothing is returned.
C11_ConfigError ==
  cfg.b <= 0 =>
    /\ inv_pc \in {"start", "raised"}
    /\ inv = <<>>
    /\ records = <<>>
    /\ inv_ret = <<>>
    /\ inv_pc = "raised" => inv_err = "ValueError"

\* a call with b < 0 on a non-empty series has raised
C11_Witness ==
  /\ inv_pc = "raised"
  /\ inv_err = "ValueError"
  /\ cfg.b < 0
  /\ Len(x_raw) >= 2

(***************************************************************************)
(* Properties of the return-time search                                    *)
(***************************************************************************)

\* the lags compute_tau_ret compares from lag dt on, with seen hits in a row
RECURSIVE tau_lags(_, _, _, _, _)
tau_lags(eps_ret, xs, t, dt, seen) ==
  IF dt > Min(t + 1, MAX_H) THEN {}
  ELSE IF Abs(xs[t + 1] - PyIndex(xs, t - dt)) * SigmaScale < eps_ret
       THEN IF seen + 1 >= DEBOUNCE_L THEN {dt}
            ELSE {dt} \cup tau_lags(eps_ret, xs, t, dt + 1, seen + 1)
       ELSE {dt} \cup tau_lags(eps_ret, xs, t, dt + 1, 0)

\* lag dt of index t is an earlier sample within eps_ret of sample t
EarlierHit(eps_ret, xs, t, dt) ==
  /\ 1 <= dt
  /\ dt <= t
  /\ Abs(xs[t + 1] - xs[t + 1 - dt]) * SigmaScale < eps_ret

\* lags up to h at which a run of DEBOUNCE_L hits on earlier samples ends
ReturnLags(eps_ret, xs, t, h) ==
  {dt \in 1..h : \A j \in 0..(DEBOUNCE_L - 1) : EarlierHit(eps_ret, xs, t, dt - j)}

\* the smallest of a non-empty set of integers
Least(S) == CHOOSE m \in S : \A n \in S : m <= n

\* the return time over earlier samples only, MAX_H if none is detected
ReturnTime(eps_ret, xs, t) ==
  IF ReturnLags(eps_ret, xs, t, Min(t, MAX_H)) = {} THEN MAX_H
  ELSE Least(ReturnLags(eps_ret, xs, t, Min(t, MAX_H)))

\* the tau_R loop has just handled an index i >= 1: it is it - 1, its
\* threshold comes from the res_sigma just updated
TauJustComputed == inv_pc = "tau" /\ it >= 2

\* C12: for i >= 1 the search compares only lags 1 <= dt <= min(i, 600),
\* each against an earlier sample; tau_R[i] is the smallest lag completing
\* the debounce, so a detected return has tau_R[i] <= i, and tau_R[i] = 600
\* when none is detected.
C12_ReturnSearch ==
  TauJustComputed =>
    /\ \A dt \in tau_lags(adaptive_eps_ret(inv.res_sigma), inv.xhat, it - 1, 1, 0) :
         1 <= dt /\ dt <= Min(it - 1, MAX_H)
    /\ inv.tau_R[it] = ReturnTime(adaptive_eps_ret(inv.res_sigma), inv.xhat, it - 1)
    /\ inv.tau_R[it] # MAX_H => inv.tau_R[it] <= it - 1

\* the tau_R loop has handled index 1 of a series of three equal samples
C12_Witness ==
  /\ TauJustComputed
  /\ it = 2
  /\ Len(inv.xhat) = 3
  /\ inv.xhat[1] = inv.xhat[2]
  /\ inv.xhat[2] = inv.xhat[3]

\* no two lags in a row of index t qualify against an earlier sample
NoTwoHitsInARow(eps_ret, xs, t) ==
  \A dt \in 2..t :
    ~(EarlierHit(eps_ret, xs, t, dt - 1) /\ EarlierHit(eps_ret, xs, t, dt))

\* C13: compute_tau_ret registers a return at lag dt only if lags dt-1 and
\* dt both pass the strict test |xhat[t] - xhat[t-lag]| < eps_ret; a series
\* whose lags never qualify twice in a row registers no return: tau_R = 600.
C13_Debounce ==
  TauJustComputed =>
    /\ inv.tau_R[it] # MAX_H =>
         /\ EarlierHit(adaptive_eps_ret(inv.res_sigma), inv.xhat, it - 1,
                       inv.tau_R[it] - 1)
         /\ EarlierHit(adaptive_eps_ret(inv.res_sigma), inv.xhat, it - 1,
                       inv.tau_R[it])
    /\ NoTwoHitsInARow(adaptive_eps_ret(inv.res_sigma), inv.xhat, it - 1)
         => inv.tau_R[it] = MAX_H

\* the tau_R loop has handled index 2 of a series whose lag 1 fails and
\* whose lag 2 qualifies
C13_Witness ==
  /\ TauJustComputed
  /\ it = 3
  /\ ~EarlierHit(adaptive_eps_ret(inv.res_sigma), inv.xhat, 2, 1)
  /\ EarlierHit(adaptive_eps_ret(inv.res_sigma), inv.xhat, 2, 2)

(***************************************************************************)
(* Properties of the regime classification                                 *)
(***************************************************************************)

\* the full Stable gate of one step
StableGate(s) ==
  /\ s.omega * 1000 < 38 * One
  /\ s.F * 1000 > 900 * One
  /\ s.S * 1000 < 150 * One
  /\ s.C * 1000 < 140 * One

\* the label the classification rule gives one step
RegimeOf(s) ==
  CASE StableGate(s) -> "Stable"
    [] ~StableGate(s) /\ s.omega * 1000 >= 300 * One /\ s.IC * 1000 < 300 * One
         -> "Critical"
    [] ~StableGate(s) /\ s.omega * 1000 >= 300 * One /\ s.IC * 1000 >= 300 * One
         -> "Collapse"
    [] ~StableGate(s) /\ s.omega * 1000 >= 38 * One /\ s.omega * 1000 < 300 * One
         -> "Watch"
    [] OTHER -> "Stable"

C15_StableMeansGate ==
  \A k \in 1..Len(records) :
    records[k].regime = "Stable" => StableGate(records[k])

\* a record with omega < 0.038 and C >= 0.14 has been built
C15_Witness ==
  \E k \in 1..Len(records) :
    /\ records[k].omega * 1000 < 38 * One
    /\ records[k].C * 1000 >= 140 * One

(***************************************************************************)
(* Properties of error handling                                            *)
(***************************************************************************)

\* C16: no value at or beyond the wall is turned into an error: every
\* logarithm is floor-clamped, so with b > 0 compute_invariants raises
\* nothing, and validate_step raises no arithmetic error, when omega >= 1.
C16_NoWallError ==
  /\ inv_pc = "raised" => cfg.b <= 0
  /\ pc = "raised" => err # "ZeroDivisionError"

\* a call with b > 0 on a series whose drift reaches the wall has ended
C16_Witness ==
  /\ inv_pc \in {"raised", "done"}
  /\ cfg.b > 0
  /\ \E k \in 1..Len(x_raw) : drift_of(x_raw, cfg)[k] >= One

\* the first transition with a row that has neither kappa nor IC
FirstMalformed ==
  CHOOSE k \in 0..(Len(rows) - 2) :
    /\ row_raises(rows[k + 1]) = "KeyError" \/ row_raises(rows[k + 2]) = "KeyError"
    /\ \A j \in 0..(k - 1) :
         row_raises(rows[j + 1]) = "" /\ row_raises(rows[j + 2]) = ""

\* C17: a malformed row makes the run fail at the first transition that
\* reads it, and the run then emits nothing: no records are returned and
\* no output file, header or earlier rows, is left behind.
C17_NoPartialOutput ==
  (pc = "raised" /\ err = "KeyError") =>
    /\ i = FirstMalformed
    /\ ret = <<>>
    /\ out_file = <<>>

\* a run has failed on a malformed row after a well-formed transition
C17_Witness ==
  /\ pc = "raised"
  /\ err = "KeyError"
  /\ i >= 1

(***************************************************************************)
(* Properties of the kappa rule and of the face potentials                 *)
(***************************************************************************)

\* ln(clip(IC, 1e-300, 1))
LnClippedIC(ic) == IF ic <= 0 THEN LnFloor ELSE IF ic >= One THEN 0 ELSE Ln(ic)

\* C18: the validator takes kappa from a present, non-empty kappa field,
\* whatever IC is, and otherwise derives kappa = ln(clip(IC, 1e-300, 1)),
\* which is finite and <= 0 even for IC = 0 or IC > 1.
C18_KappaRule ==
  (call.fn = "row_kappa" /\ out # <<>>) =>
    /\ call.row.kappa # {} => out = [val |-> FieldVal(call.row.kappa)]
    /\ (call.row.kappa = {} /\ call.row.IC # {}) =>
         /\ out = [val |-> LnClippedIC(FieldVal(call.row.IC))]
         /\ out.val <= 0
         /\ out.val >= LnFloor

\* kappa was derived from an IC above 1
C18_Witness ==
  /\ call.fn = "row_kappa"
  /\ out # <<>>
  /\ call.row.kappa = {}
  /\ call.row.IC = {250}
  /\ out.val = 0

\* with eps = 0 both faces give drift w the same potential
PhiSame(w) == phi(w, 0, prm.p, "exact") = phi(w, 0, prm.p, "normal")

\* the step of record r was split at the pivot
WasSplit(r) == r.face_n # r.face_np1 /\ PivotInside(r)

SecantQuotient(c) ==
  FDiv(phi(c.om_minus, c.eps, c.p, c.face) - phi(c.om_plus, c.eps, c.p, c.face),
       c.om_plus - c.om_minus)

\* C20: gamma_secant(w, w, eps, p, face) returns the value of
\* gamma_pointwise(w, eps, p, face) for every w, the wall w = 1 and
\* w = 1 + eps included, whatever eps, p and the face; it falls back to
\* gamma_pointwise(om_minus) exactly when |om_plus - om_minus| is below the
\* machine scale and otherwise returns the secant quotient.
C20_SecantPointwise ==
  (call.fn = "gamma_secant" /\ out # <<>>) =>
    /\ "val" \in DOMAIN out
    /\ Abs(call.om_plus - call.om_minus) < MachineScale
         => out.val = gamma_pointwise(call.om_minus, call.eps, call.p, call.face)
    /\ Abs(call.om_plus - call.om_minus) >= MachineScale
         => out.val = SecantQuotient(call)

\* gamma_secant on the degenerate interval [w, w] next to the wall returned
\* the pointwise rate
C20_Witness ==
  /\ call.fn = "gamma_secant"
  /\ call.om_minus = 199
  /\ call.om_plus = 199
  /\ "val" \in DOMAIN out
  /\ out.val = gamma_pointwise(199, call.eps, call.p, call.face)

\* C21: two adjacent rows with equal omega give a record with U_pred = U_n
\* and rT = U_np1 - U_n, whatever the guard flags and the faces; two
\* identical rows give rT = 0, rW = 0 and both flags pass.
C21_EqualOmega ==
  /\ (pc = "raised" /\ err = "ZeroDivisionError")
       => rows[i + 1].omega # rows[i + 2].omega
  /\ \A k \in DOMAIN results :
       rows[k].omega = rows[k + 1].omega =>
         /\ results[k].U_pred = results[k].U_n
         /\ results[k].rT = results[k].U_np1 - results[k].U_n
         /\ rows[k] = rows[k + 1] =>
              /\ results[k].rT = 0
              /\ results[k].rW = 0
              /\ results[k].okT = 1
              /\ results[k].okW = 1

\* two rows with equal omega below the pivot, one guarded and one not, were
\* validated on differing faces through the fallback branch
C21_Witness ==
  \E k \in DOMAIN results :
    /\ rows[k].omega = rows[k + 1].omega
    /\ results[k].face_n # results[k].face_np1
    /\ results[k].U_pred = results[k].U_n

\* the drift policy a call asks for: the named option, pre-clip without it
PolicyAsked(c) == IF "policy" \in DOMAIN c THEN c.policy ELSE "pre_clip"

\* drift k (from 1) of the normalized series y under a policy
DriftUnder(y, k, policy) ==
  IF k = 1 THEN 0
  ELSE IF policy = "pre_clip"
       THEN Abs(y[k] - y[k - 1])
       ELSE Abs(Max(0, Min(One, y[k])) - Max(0, Min(One, y[k - 1])))

\* C22: omega[0] = 0 and omega[i] is |y[i] - y[i-1]| under the pre-clip
\* policy, |clip(y[i]) - clip(y[i-1])| under the post-clip policy;
\* compute_invariants accepts either policy through a named option and
\* uses pre-clip when the option is left out.
C22_DriftPolicies ==
  /\ inv_pc = "raised" => inv_err # "TypeError"
  /\ inv_pc \in {"tau", "records", "done"} =>
       \A k \in 1..Len(inv.omega) :
         inv.omega[k] = DriftUnder(inv.y, k, PolicyAsked(cfg))

\* a call without the option measured a drift before clipping that differs
\* from the drift after clipping
C22_Witness ==
  /\ inv_pc = "done"
  /\ "policy" \notin DOMAIN cfg
  /\ \E k \in 2..Len(inv.omega) :
       /\ inv.omega[k] = DriftUnder(inv.y, k, "pre_clip")
       /\ inv.omega[k] # DriftUnder(inv.y, k, "post_clip")

(***************************************************************************)
(* Properties of the scripts                                               *)
(***************************************************************************)

\* the normalized samples the running script has computed so far
Normalized ==
  IF prog = "turbo" THEN (IF inv = <<>> THEN <<>> ELSE inv.y)
  ELSE IF job = <<>> THEN <<>> ELSE job.y

\* C23: a script run over rows carrying (a, b) normalizes every row with
\* one and the same (a, b), and rejects the input when the b of any row,
\* not only of the first, is <= 0: then nothing is normalized or written.
C23_FrozenScale ==
  /\ (\E k \in DOMAIN csv_rows : csv_rows[k].b <= 0) =>
       /\ Normalized = <<>>
       /\ job_out = <<>>
       /\ job_pc # "done"
  /\ \A k \in DOMAIN Normalized :
       Normalized[k] = FDiv(csv_rows[k].x_raw - csv_rows[1].a, csv_rows[1].b)

\* a run over two rows with the same (a, b), b > 0, wrote both rows
C23_Witness ==
  /\ job_pc = "done"
  /\ Len(job_out) = 2
  /\ csv_rows[1].b > 0
  /\ csv_rows[2].a = csv_rows[1].a
  /\ csv_rows[2].b = csv_rows[1].b
  /\ job_out[2].y = FDiv(csv_rows[2].x_raw - csv_rows[1].a, csv_rows[1].b)

\* C24: the validator never reorders or mutates its input: through every
\* step of validate_sequence, returning or failing, the caller's sequence
\* keeps the same rows in the same order with the same field values, and
\* idx is a field of the new validation records only.
C24_InputUntouched ==
  [][/\ rows' = rows
     /\ \A k \in DOMAIN rows' : "idx" \notin DOMAIN rows'[k]
     /\ \A k \in DOMAIN results' : results'[k].idx = k - 1
    ]_<<vars, inv_vars, fn_vars, tool_vars>>

\* validate_sequence failed on a later transition after it had built a
\* record, and the rows carry no idx
C24_Witness ==
  /\ pc = "raised"
  /\ Len(results) >= 1
  /\ results[1].idx = 0
  /\ \A k \in DOMAIN rows : "idx" \notin DOMAIN rows[k]

\* the step of record k of the call departs from a row and arrives at a row
\* on differing faces
FacesDiffer(r) == r.face_n # r.face_np1

\* C25: in the split branch the row on the normal face has omega < pivot
\* and the row on the exact face has omega >= pivot, so the part of the step
\* below the pivot runs on the normal face and the part above it on the
\* exact face; when the faces differ and the fallback is taken, both omegas
\* are < pivot and the row on the exact face has guard_on true.
C25_SplitSides ==
  \A k \in DOMAIN results :
    /\ (FacesDiffer(results[k]) /\ PivotInside(results[k])) =>
         /\ results[k].face_n = "normal" =>
              /\ results[k].omega_n < prm.pivot
              /\ results[k].omega_np1 >= prm.pivot
         /\ results[k].face_n = "exact" =>
              /\ results[k].omega_n >= prm.pivot
              /\ results[k].omega_np1 < prm.pivot
    /\ (FacesDiffer(results[k]) /\ ~PivotInside(results[k])) =>
         /\ results[k].omega_n < prm.pivot
         /\ results[k].omega_np1 < prm.pivot
         /\ results[k].face_n = "exact" => to_bool_flag(rows[k].guard_on)
         /\ results[k].face_np1 = "exact" => to_bool_flag(rows[k + 1].guard_on)

\* a step from a row at the pivot itself, on the exact face, down to a row
\* on the normal face was split
C25_Witness ==
  \E k \in DOMAIN results :
    /\ FacesDiffer(results[k])
    /\ PivotInside(results[k])
    /\ results[k].face_n = "exact"
    /\ results[k].omega_n = prm.pivot
    /\ results[k].omega_np1 < prm.pivot

\* the return times computed so far
TauSoFar == IF inv = <<>> THEN <<>> ELSE inv.tau_R

\* C26: every tau_R of compute_invariants is an integer in [1, 600];
\* tau_R = 1 occurs at index 0 only and tau_R[i] >= 2 for i >= 1 (a return
\* at lag 1 cannot satisfy the debounce of 2), hence U[i] = C[i] / (1 +
\* tau_R[i]) <= C[i] / 3 for i >= 1.
C26_TauRange ==
  /\ \A k \in DOMAIN TauSoFar :
       /\ TauSoFar[k] \in 1..MAX_H
       /\ TauSoFar[k] = 1 => k = 1
       /\ k >= 2 => TauSoFar[k] >= 2
  /\ \A k \in DOMAIN records :
       /\ records[k].tau_R = TauSoFar[k]
       /\ records[k].U = FDiv(records[k].C, One + One * records[k].tau_R)
       /\ k >= 2 => records[k].U <= FDiv(records[k].C, 3 * One)

\* a record past index 0 with the shortest return time, 2, and a payload
\* U > 0
C26_Witness ==
  \E k \in DOMAIN records :
    /\ k >= 2
    /\ records[k].tau_R = 2
    /\ records[k].C > 0
    /\ records[k].U > 0

\* the audit row made of an invariant record, with its kappa field or with
\* IC only
AuditRow(rec, with_kappa) ==
  [omega |-> rec.omega, guard_on |-> "0", C |-> rec.C, tau_R |-> One * rec.tau_R,
   kappa |-> IF with_kappa THEN {rec.kappa} ELSE {}, IC |-> {rec.IC}]

\* the weld residual the validator computes between two records
WeldResidual(rec_n, rec_np1, with_kappa) ==
  row_kappa(AuditRow(rec_np1, with_kappa)) - row_kappa(AuditRow(rec_n, with_kappa))

\* C27: for the records compute_invariants produces, the validator's weld
\* residual rW of every transition is the same with the kappa field and
\* with IC only: the pipeline's kappa = ln(max(IC, 1e-300)) equals the
\* validator's fallback ln(clip(IC, 1e-300, 1)).
C27_KappaFromRecords ==
  /\ \A k \in DOMAIN records :
       records[k].kappa = row_kappa(AuditRow(records[k], FALSE))
  /\ \A k \in 1..(Len(records) - 1) :
       WeldResidual(records[k], records[k + 1], TRUE)
         = WeldResidual(records[k], records[k + 1], FALSE)

\* two records with IC inside (0, 1] give the same weld residual either way
C27_Witness ==
  /\ Len(records) >= 3
  /\ records[2].IC > 0 /\ records[2].IC < One
  /\ records[3].IC > 0 /\ records[3].IC < One
  /\ records[3].kappa # records[2].kappa
  /\ WeldResidual(records[2], records[3], TRUE)
       = WeldResidual(records[2], records[3], FALSE)

\* the arguments turbo.py and the claim give compute_invariants: a, b and
\* the defaults
DefaultConfig(a, b) ==
  [a |-> a, b |-> b, eps |-> DEFAULT_EPS, K |-> DEFAULT_K, alpha |-> DEFAULT_ALPHA]

\* the lists of compute_invariants after the tau_R loop has run from index k
RECURSIVE AfterTauLoop(_, _)
AfterTauLoop(v, k) ==
  IF k >= Len(v.xhat) THEN v ELSE AfterTauLoop(tau_iteration(v, k), k + 1)

\* the lists compute_invariants computes for the series xs under c
CoreLists(xs, c) ==
  AfterTauLoop(core_lists(normalize(xs, c.a, c.b),
                          clip_all(normalize(xs, c.a, c.b)),
                          drift_of(xs, c), c), 0)

\* the record compute_invariants builds for index k (from 1)
CoreRecord(xs, c, k) == record_at(xs, CoreLists(xs, c), k - 1, c.alpha)

\* the rows of the input share one (a, b) with b > 0
FrozenInput ==
  /\ csv_rows # <<>>
  /\ csv_rows[1].b > 0
  /\ \A k \in DOMAIN csv_rows :
       csv_rows[k].a = csv_rows[1].a /\ csv_rows[k].b = csv_rows[1].b

\* row h of the harness agrees with record c of compute_invariants
SameInvariants(h, c) ==
  /\ h.y = c.y /\ h.xhat = c.xhat /\ h.omega = c.omega
  /\ h.F = c.F /\ h.S = c.S /\ h.C = c.C
  /\ h.tau_R = c.tau_R /\ h.IC = c.IC /\ h.kappa = c.kappa

\* C28: on a raw series with one constant (a, b) and the default
\* parameters the harness writes the same y, xhat, omega, F, S, C, tau_R,
\* IC and kappa at every index as compute_invariants returns, tau_R at
\* index 0, the curvature window and the return-time search included.
C28_HarnessAgrees ==
  (prog = "harness" /\ job_pc = "done" /\ FrozenInput) =>
    \A k \in DOMAIN job_out :
      SameInvariants(job_out[k],
                     CoreRecord(column(csv_rows, "x_raw"),
                                DefaultConfig(csv_rows[1].a, csv_rows[1].b), k))

\* the harness wrote four rows of a frozen input, the last with a full
\* curvature window and C > 0
C28_Witness ==
  /\ prog = "harness"
  /\ job_pc = "done"
  /\ FrozenInput
  /\ Len(job_out) = 4
  /\ job_out[4].C > 0
  /\ job_out[2].y = CoreRecord(column(csv_rows, "x_raw"),
                               DefaultConfig(csv_rows[1].a, csv_rows[1].b), 2).y

\* rows carrying the kappa values of a sequence, all else equal
WeldRows(ks) ==
  [k \in 1..Len(ks) |->
     [omega |-> 100, guard_on |-> "0", C |-> 0, tau_R |-> One,
      kappa |-> {ks[k]}, IC |-> {}]]

\* the keyword arguments of validate_sequence with tolW = tol, the others at
\* their defaults
WeldParams(tol) ==
  [alpha |-> One, eps |-> 1, p |-> 3 * One, tolT |-> 0, tolW |-> tol,
   pivot |-> 198]

\* C29: validate_weld returns one boolean per adjacent pair, n - 1 entries,
\* and the empty list, not an error, for fewer than 2 values; entry i is
\* the okW flag validate_sequence reports for transition i on rows carrying
\* those kappa values with tolW = tolerance.
C29_WeldAgrees ==
  (call.fn = "validate_weld" /\ out # <<>>) =>
    /\ "val" \in DOMAIN out
    /\ Len(call.kappa_sequence) < 2 => out.val = <<>>
    /\ Len(call.kappa_sequence) >= 2 =>
         /\ Len(out.val) = Len(call.kappa_sequence) - 1
         /\ \A k \in 1..Len(out.val) :
              out.val[k] = (step_record(WeldRows(call.kappa_sequence), k - 1,
                                        WeldParams(call.tolerance)).okW = 1)

\* three kappa values: one pair exactly the tolerance apart passes, the
\* other pair fails
C29_Witness ==
  /\ call.fn = "validate_weld"
  /\ call.kappa_sequence = <<-20, -17, -23>>
  /\ call.tolerance = 3
  /\ out = [val |-> <<TRUE, FALSE>>]

\* transport_update_U of the call's face and alpha from drift a to drift b
Transport(c, U, a, b) == transport_update_U(U, a, b, c.alpha, c.eps, c.p, c.face)

\* U_n + (phi(om_np1) - phi(om_n)) / alpha
ClosedForm(c) ==
  c.U_n + FDiv(phi(c.om_np1, c.eps, c.p, c.face) - phi(c.om_n, c.eps, c.p, c.face),
               c.alpha)

\* gamma_secant(a, b) = gamma_secant(b, a) on the call's face
SecantSymmetric(c, a, b) ==
  gamma_secant(a, b, c.eps, c.p, c.face) = gamma_secant(b, a, c.eps, c.p, c.face)

\* C30 as stated: on a fixed face and alpha, over steps of non-zero width,
\* transport_update_U equals U_n + (phi(om_np1) - phi(om_n)) / alpha, so
\* transporting through om_mid equals the direct update, transporting
\* there and back returns U_n, and gamma_secant is symmetric.
C30_PathIndependent ==
  (call.fn = "transport_update_U" /\ out # <<>>) =>
    /\ out.val = ClosedForm(call)
    /\ Transport(call, Transport(call, call.U_n, call.om_n, call.om_mid),
                 call.om_mid, call.om_np1) = out.val
    /\ Transport(call, out.val, call.om_np1, call.om_n) = call.U_n
    /\ SecantSymmetric(call, call.om_n, call.om_np1)

\* |phi(om_np1) - phi(om_n)| on the call's face
PhiGap(c) ==
  Abs(phi(c.om_np1, c.eps, c.p, c.face) - phi(c.om_n, c.eps, c.p, c.face))

\* C30 amended: gamma_secant is symmetric in its two omega arguments
\* exactly; transport_update_U equals U_n + (phi(om_np1) - phi(om_n)) /
\* alpha, the update through om_mid equals the direct one, and the way
\* there and back returns U_n, each only up to the rounding of the
\* arithmetic (a relative error of one unit in the last place for the
\* closed form, one unit of the model's floats for the other two).
C30_PathIndependentRounded ==
  (call.fn = "transport_update_U" /\ out # <<>>) =>
    /\ Abs(out.val - ClosedForm(call)) * One <= PhiGap(call)
    /\ Abs(Transport(call, Transport(call, call.U_n, call.om_n, call.om_mid),
                     call.om_mid, call.om_np1) - out.val) <= 1
    /\ Abs(Transport(call, out.val, call.om_np1, call.om_n) - call.U_n) <= 1
    /\ SecantSymmetric(call, call.om_n, call.om_np1)

\* with alpha = 3 the update through om_mid was not the direct update, and
\* the direct update was not the closed form
C30_Witness ==
  /\ call.fn = "transport_update_U"
  /\ out # <<>>
  /\ call.alpha = 3 * One
  /\ out.val # ClosedForm(call)
  /\ Transport(call, Transport(call, call.U_n, call.om_n, call.om_mid),
               call.om_mid, call.om_np1) # out.val

====
